---- MODULE Spec2Model ----
(***************************************************************************)
(* The Exploding Kittens game engine (game.py, cards.py) as a state        *)
(* machine.  state is the GameState dataclass of a Game, kept as one       *)
(* record.  Every value drawn from the module-level random generator is an *)
(* input of the action that draws it.                                      *)
(***************************************************************************)
EXTENDS Integers, Sequences, FiniteSets, TLC

\* num_players, state: the fields of Game.  history_len: len(action_history),
\* a list the engine appends to and never reads.  result: the dict the last
\* execute_action returned.  raised: the exception the last call raised.
\* call: the last call of execute_action, as the state it started from and the
\* action it was given.
\* illegal_calls: how many execute_action calls were given an action that
\* get_legal_actions() did not offer.
\* det: the last call determinize_game(game, observer_id) and the game it
\* returned.
\* search: an agent of mcts_agent.py with its settings, the seed its caller
\* gives random.seed before every choose_action, the state of the generator,
\* and what its choose_action calls on the game returned and ran.
\* playout: a call of simulate_random_playout or simulate_with_heuristics on
\* the game: its max_moves, the generator's seed, and what it returned.
\* mcts: the tree of one determinization of an MCTSAgent, the determinized
\* game, the generator's state, and what the last _mcts_iteration did.
\* selection: the action_values dict at line 265 of MCTSAgent.choose_action
\* and the action lines 265-283 return for it.
VARIABLES num_players, state, history_len, result, raised, call, illegal_calls,
          det, search, playout, mcts, selection

vars == <<num_players, state, history_len, result, raised, call, illegal_calls,
          det, search, playout, mcts, selection>>

(***************************************************************************)
(* Bounds of the model.                                                    *)
(***************************************************************************)
\* Largest num_players a game is created with.
MaxPlayers == 3
\* How many kinds of BASE_DECK_CONFIG, in the order of the dict, are in the box.
NumKinds == 7
\* Cap on the copies of one kind in the box (the source has 4 or 5).
MaxCopies == 2
\* random.shuffle draws its permutation from Shuffled(_, 0..MaxShuffle).
MaxShuffle == 1
\* Cap on len(action_history), the number of execute_action calls on one game.
MaxActions == 4
\* Cap on the calls of execute_action with an action that is not legal.
MaxIllegal == 1
\* Cap on len(action_history) for a caller that also passes illegal actions.
MaxActionsAny == 3
\* Longest deck of a game that is determinized.
MaxDeck == 4
\* max_moves of a playout (the source's default is 200).
MaxMoves == 6
\* Largest num_simulations of an agent.
MaxSims == 4
\* Largest num_determinizations of an MCTSAgent.
MaxDets == 2
\* The seeds random.seed is called with are 0..MaxSeed.
MaxSeed == 1
\* Largest number of choose_action calls an agent is given on one game.
MaxCalls == 2
\* Largest number of iterations run on one tree.
MaxIters == 7
\* Largest number of determinizations whose ratios are recorded.
MaxRecorded == 4

(***************************************************************************)
(* cards.py                                                                *)
(***************************************************************************)
EXPLODING_KITTEN == "EXPLODING_KITTEN"
DEFUSE == "DEFUSE"
ATTACK == "ATTACK"
SKIP == "SKIP"
FAVOR == "FAVOR"
SHUFFLE == "SHUFFLE"
SEE_THE_FUTURE == "SEE_THE_FUTURE"
NOPE == "NOPE"

CAT_CARDS ==
    {"CAT_TACOCAT", "CAT_CATTERMELON", "CAT_HAIRY_POTATO", "CAT_BEARD_CAT",
     "CAT_RAINBOW_CAT"}

CardType ==
    {EXPLODING_KITTEN, DEFUSE, ATTACK, SKIP, FAVOR, SHUFFLE, SEE_THE_FUTURE, NOPE}
        \cup CAT_CARDS

\* The keys of BASE_DECK_CONFIG in the order the dict literal lists them, which
\* is the order _setup_game iterates over.
BaseDeckKinds ==
    <<ATTACK, SKIP, FAVOR, SHUFFLE, SEE_THE_FUTURE, NOPE, "CAT_TACOCAT",
      "CAT_CATTERMELON", "CAT_HAIRY_POTATO", "CAT_BEARD_CAT", "CAT_RAINBOW_CAT">>

\* The counts of BASE_DECK_CONFIG, by position in BaseDeckKinds.
BaseDeckCounts == <<4, 4, 4, 4, 5, 5, 4, 4, 4, 4, 4>>

Min(a, b) == IF a <= b THEN a ELSE b

\* BASE_DECK_CONFIG within the bounds: the first NumKinds kinds, each with its
\* source count capped at MaxCopies.
BASE_DECK_CONFIG ==
    [i \in 1..Min(NumKinds, Len(BaseDeckKinds)) |->
        [card_type |-> BaseDeckKinds[i], count |-> Min(BaseDeckCounts[i], MaxCopies)]]

DEFUSE_IN_DECK == 2

\* The number of cards _setup_game deals each player before the Defuse.
CardsDealt == 4

(***************************************************************************)
(* Values                                                                  *)
(***************************************************************************)
\* Python's None where an int (a player id, a position) is optional.
None == -1
\* Python's None where a card or a card kind is optional.
NoCard == "None"

\* x repeated n times.
Repeat(x, n) == [i \in 1..n |-> x]

(***************************************************************************)
(* Player                                                                  *)
(***************************************************************************)
has_card(player, card_type) ==
    \E i \in 1..Len(player.hand) : player.hand[i] = card_type

count_card(player, card_type) ==
    Cardinality({i \in 1..Len(player.hand) : player.hand[i] = card_type})

\* The sequence s without its i-th element (list.pop(i - 1)).
Pop(s, i) == SubSeq(s, 1, i - 1) \o SubSeq(s, i + 1, Len(s))

\* The index of the first card of the kind in the hand, 0 when there is none.
FirstIndex(hand, card_type) ==
    IF \E i \in 1..Len(hand) : hand[i] = card_type
    THEN CHOOSE i \in 1..Len(hand) :
            /\ hand[i] = card_type
            /\ \A j \in 1..(i - 1) : hand[j] # card_type
    ELSE 0

\* remove_card that returns the card and leaves it in the hand.
remove_card_keeps(player, card_type) ==
    LET i == FirstIndex(player.hand, card_type)
    IN  [player |-> player,
         card |-> IF i = 0 THEN NoCard ELSE player.hand[i]]

\* remove_card: the hand left and the card returned (None when the hand has no
\* card of the kind).
remove_card(player, card_type) ==
    LET i == FirstIndex(player.hand, card_type)
    IN  IF i = 0
        THEN [player |-> player, card |-> NoCard]
        ELSE [player |-> [player EXCEPT !.hand = Pop(player.hand, i)],
              card |-> player.hand[i]]

\* get_matching_cat_pairs with count >= 1 for count >= 2.
get_matching_cat_pairs_single(player) ==
    LET h == player.hand
        keep(i) == /\ h[i] \in CAT_CARDS
                   /\ \A j \in 1..(i - 1) : h[j] # h[i]
        RECURSIVE build(_)
        build(i) == IF i > Len(h) THEN <<>>
                    ELSE (IF keep(i) THEN <<h[i]>> ELSE <<>>) \o build(i + 1)
    IN  build(1)

\* get_matching_cat_pairs: the cat kinds held at least twice, in the order of
\* their first card in the hand (the insertion order of the Counter).
get_matching_cat_pairs(player) ==
    LET h == player.hand
        keep(i) == /\ h[i] \in CAT_CARDS
                   /\ \A j \in 1..(i - 1) : h[j] # h[i]
                   /\ count_card(player, h[i]) >= 2
        RECURSIVE build(_)
        build(i) == IF i > Len(h) THEN <<>>
                    ELSE (IF keep(i) THEN <<h[i]>> ELSE <<>>) \o build(i + 1)
    IN  build(1)

(***************************************************************************)
(* GameState                                                               *)
(***************************************************************************)
current_player(s) == s.players[s.current_player_idx]

\* alive_players: the alive players in index order.
alive_players(s) ==
    LET n == Cardinality(DOMAIN s.players)
        RECURSIVE build(_)
        build(i) == IF i >= n THEN <<>>
                    ELSE (IF s.players[i].alive THEN <<s.players[i]>> ELSE <<>>)
                            \o build(i + 1)
    IN  build(0)

\* peek_top: the top n cards, bottom first; the whole deck when it is shorter.
peek_top(deck, n) ==
    IF Len(deck) >= n THEN SubSeq(deck, Len(deck) - n + 1, Len(deck)) ELSE deck

\* insert_card that loses the card.
insert_card_lost(deck, card, position) == deck

\* insert_card: list.insert(position, card) for 0 <= position; a position
\* beyond the end appends.
insert_card(deck, card, position) ==
    LET at == Min(position, Len(deck))
    IN  SubSeq(deck, 1, at) \o <<card>> \o SubSeq(deck, at + 1, Len(deck))

Reverse(s) == [i \in 1..Len(s) |-> s[Len(s) + 1 - i]]

\* The cards at the odd places of s followed by those at the even places.
Riffle(s) ==
    LET n == Len(s)
        odd == (n + 1) \div 2
    IN  [i \in 1..n |-> IF i <= odd THEN s[2 * i - 1] ELSE s[2 * (i - odd)]]

\* s with its first k cards moved behind the others.
Rotate(s, k) ==
    IF Len(s) = 0 THEN s
    ELSE LET m == k % Len(s)
         IN  SubSeq(s, m + 1, Len(s)) \o SubSeq(s, 1, m)

\* random.shuffle: a permutation of s.  The generator picks which; r is its
\* pick among the permutations the model draws from.
Shuffled(s, r) ==
    CASE r = 0 -> s
      [] r = 1 -> Reverse(Riffle(s))
      [] r = 2 -> Reverse(s)
      [] OTHER -> Rotate(s, r - 2)

\* A shuffle_deck that leaves top_three_known_by as it is.
shuffle_deck_keeps_known(s, r) == [s EXCEPT !.deck = Shuffled(s.deck, r)]

\* shuffle_deck
shuffle_deck(s, r) ==
    [s EXCEPT !.deck = Shuffled(s.deck, r), !.top_three_known_by = None]

(***************************************************************************)
(* Game._setup_game                                                        *)
(***************************************************************************)
\* The box before the first shuffle: count cards of each kind, in dict order.
BaseDeck ==
    LET RECURSIVE build(_)
        build(i) ==
            IF i > Len(BASE_DECK_CONFIG) THEN <<>>
            ELSE Repeat(BASE_DECK_CONFIG[i].card_type, BASE_DECK_CONFIG[i].count)
                    \o build(i + 1)
    IN  build(1)

\* A deal that forgets the Defuse.
DealtHand_NoDefuse(deck, i) ==
    [k \in 1..CardsDealt |-> deck[Len(deck) - i * CardsDealt - (k - 1)]]

\* The hand dealt to player i (0-based) from the shuffled deck: CardsDealt pops
\* off the end, then a Defuse.
DealtHand(deck, i) ==
    [k \in 1..CardsDealt |-> deck[Len(deck) - i * CardsDealt - (k - 1)]]
        \o <<DEFUSE>>

\* _setup_game that adds a hazard for every player and deals no Defuse.
_setup_game_hazard_each(n, r1, r2, r3) ==
    LET deck1 == Shuffled(BaseDeck, r1)
        left == SubSeq(deck1, 1, Len(deck1) - n * CardsDealt)
        deck2 == Shuffled(left \o Repeat(DEFUSE, DEFUSE_IN_DECK), r2)
        deck3 == Shuffled(deck2 \o Repeat(EXPLODING_KITTEN, n), r3)
    IN  [players |-> [i \in 0..(n - 1) |->
                        [id |-> i, hand |-> DealtHand_NoDefuse(deck1, i),
                         alive |-> TRUE]],
         deck |-> deck3,
         discard |-> <<>>,
         current_player_idx |-> 0,
         turns_remaining |-> 1,
         game_over |-> FALSE,
         winner |-> None,
         top_three_known_by |-> None]

\* _setup_game; r1, r2 and r3 are the generator's picks for its three shuffles.
\* Defined when the box holds CardsDealt cards for every player (deck.pop()
\* raises IndexError otherwise, and BASE_DECK_CONFIG's 46 cards never do).
_setup_game(n, r1, r2, r3) ==
    LET deck1 == Shuffled(BaseDeck, r1)
        left == SubSeq(deck1, 1, Len(deck1) - n * CardsDealt)
        deck2 == Shuffled(left \o Repeat(DEFUSE, DEFUSE_IN_DECK), r2)
        deck3 == Shuffled(deck2 \o Repeat(EXPLODING_KITTEN, n - 1), r3)
    IN  [players |-> [i \in 0..(n - 1) |->
                        [id |-> i, hand |-> DealtHand(deck1, i), alive |-> TRUE]],
         deck |-> deck3,
         discard |-> <<>>,
         current_player_idx |-> 0,
         turns_remaining |-> 1,
         game_over |-> FALSE,
         winner |-> None,
         top_three_known_by |-> None]

(***************************************************************************)
(* Actions (the Action subclasses), as records.  card_type is PlayCard's   *)
(* card_type and PlayCatPair's cat_type.                                   *)
(***************************************************************************)
Pass == [type |-> "Pass", card_type |-> NoCard, target_player_id |-> None,
         position |-> None]

PlayCard(card_type, target) ==
    [type |-> "PlayCard", card_type |-> card_type, target_player_id |-> target,
     position |-> None]

PlayCatPair(cat_type, target) ==
    [type |-> "PlayCatPair", card_type |-> cat_type, target_player_id |-> target,
     position |-> None]

\* No action: the "action" key of a result dict that was never returned.
InsertExplodingKitten(position) ==
    [type |-> "InsertExplodingKitten", card_type |-> NoCard,
     target_player_id |-> None, position |-> position]

NoAction == [type |-> "None", card_type |-> NoCard, target_player_id |-> None,
             position |-> None]

(***************************************************************************)
(* Game.get_legal_actions                                                  *)
(***************************************************************************)
\* The ids of the players a Favor or a pair of player_id may aim at, in index
\* order: other.id != player_id and other.alive and len(other.hand) > 0.
Targets(s, n, player_id) ==
    LET RECURSIVE build(_)
        build(i) ==
            IF i >= n THEN <<>>
            ELSE (IF /\ s.players[i].id # player_id
                     /\ s.players[i].alive
                     /\ Len(s.players[i].hand) > 0
                  THEN <<i>> ELSE <<>>) \o build(i + 1)
    IN  build(0)

\* The concatenation of the sequences of a sequence.
RECURSIVE Flatten(_)
Flatten(ss) == IF Len(ss) = 0 THEN <<>> ELSE Head(ss) \o Flatten(Tail(ss))

\* get_legal_actions(player_id): the list it returns, in order.
get_legal_actions(s, n, player_id) ==
    LET player == s.players[player_id]
        targets == Targets(s, n, player_id)
        simple == SelectSeq(<<ATTACK, SKIP, SHUFFLE, SEE_THE_FUTURE>>,
                            LAMBDA k : has_card(player, k))
        pairs == get_matching_cat_pairs(player)
    IN  <<Pass>>
          \o [i \in 1..Len(simple) |-> PlayCard(simple[i], None)]
          \o (IF has_card(player, FAVOR)
              THEN [i \in 1..Len(targets) |-> PlayCard(FAVOR, targets[i])]
              ELSE <<>>)
          \o Flatten([j \in 1..Len(pairs) |->
                        [i \in 1..Len(targets) |-> PlayCatPair(pairs[j], targets[i])]])

(***************************************************************************)
(* The turn machine                                                        *)
(***************************************************************************)
\* The while loop of _advance_player and _do_attack: the first alive player at
\* or after idx in cyclic order.  It does not end when no player is alive:
\* None stands for the index the loop then never settles on.
RECURSIVE FindAlive(_, _, _)
FindAlive(s, n, idx) ==
    IF \A i \in DOMAIN s.players : ~s.players[i].alive THEN None
    ELSE IF s.players[idx].alive THEN idx
    ELSE FindAlive(s, n, (idx + 1) % n)

_advance_player(s, n) ==
    [s EXCEPT !.current_player_idx = FindAlive(s, n, (s.current_player_idx + 1) % n)]

\* _do_attack with turns_remaining += 2 for turns_remaining = 2.
_do_attack_adds(s, n) ==
    [s EXCEPT !.current_player_idx = FindAlive(s, n, (s.current_player_idx + 1) % n),
              !.turns_remaining = @ + 2]

_do_attack(s, n) ==
    [s EXCEPT !.current_player_idx = FindAlive(s, n, (s.current_player_idx + 1) % n),
              !.turns_remaining = 2]

\* _do_skip that passes the turn whatever turns_remaining is.
_do_skip_advances(s, n) ==
    [s EXCEPT !.current_player_idx = FindAlive(s, n, (s.current_player_idx + 1) % n),
              !.turns_remaining = 1]

_do_skip(s, n) ==
    LET s1 == [s EXCEPT !.turns_remaining = @ - 1]
    IN  IF s1.turns_remaining <= 0
        THEN [_advance_player(s1, n) EXCEPT !.turns_remaining = 1]
        ELSE s1

\* _end_turn that never passes the turn.
_end_turn_stays(s, n) ==
    [s EXCEPT !.turns_remaining = IF @ > 1 THEN @ - 1 ELSE 1]

\* _end_turn that passes the turn and leaves turns_remaining at 0.
_end_turn_no_reset(s, n) ==
    LET s1 == [s EXCEPT !.turns_remaining = @ - 1]
    IN  IF s1.turns_remaining <= 0 THEN _advance_player(s1, n) ELSE s1

_end_turn(s, n) ==
    LET s1 == [s EXCEPT !.turns_remaining = @ - 1]
    IN  IF s1.turns_remaining <= 0
        THEN [_advance_player(s1, n) EXCEPT !.turns_remaining = 1]
        ELSE s1

\* _check_game_over that checks nothing.
_check_game_over_never(s) == s

\* _check_game_over that names the current player the winner.
_check_game_over_current(s) ==
    LET alive == alive_players(s)
    IN  IF Len(alive) = 1
        THEN [s EXCEPT !.game_over = TRUE, !.winner = s.current_player_idx]
        ELSE s

\* _check_game_over that takes the flag back when it finds it set.
_check_game_over_toggles(s) ==
    LET alive == alive_players(s)
    IN  IF Len(alive) = 1
        THEN [s EXCEPT !.game_over = ~s.game_over, !.winner = alive[1].id]
        ELSE s

_check_game_over(s) ==
    LET alive == alive_players(s)
    IN  IF Len(alive) = 1
        THEN [s EXCEPT !.game_over = TRUE, !.winner = alive[1].id]
        ELSE s

(***************************************************************************)
(* The result dict of execute_action; a key the code does not set holds    *)
(* None.                                                                   *)
(***************************************************************************)
NoResult ==
    [action |-> NoAction, type |-> "None", player |-> None, card |-> NoCard, effect |-> "None",
     draw |-> NoCard, exploded |-> FALSE, defused |-> FALSE,
     insert_position |-> None, stolen |-> NoCard, seen_cards |-> <<>>,
     position |-> None]

(***************************************************************************)
(* Game._do_draw                                                           *)
(***************************************************************************)
\* _do_draw; r is what random.randint(0, len(deck)) returns when a hazard is
\* defused.  Gives the state left and the result keys set.
_do_draw(s, n, r) ==
    LET idx == s.current_player_idx
        player == s.players[idx]
    IN  IF Len(s.deck) = 0
        THEN [state |-> _end_turn(s, n), result |-> NoResult]
        ELSE
          LET card == s.deck[Len(s.deck)]
              s1 == [s EXCEPT !.deck = SubSeq(s.deck, 1, Len(s.deck) - 1)]
              res1 == [NoResult EXCEPT !.draw = card]
          IN  IF card = EXPLODING_KITTEN
              THEN
                IF has_card(player, DEFUSE)
                THEN
                  LET rm == remove_card(player, DEFUSE)
                      s2 == [s1 EXCEPT !.players[idx] = rm.player,
                                       !.discard = Append(@, rm.card),
                                       !.deck = insert_card(s1.deck, card, r)]
                  IN  [state |-> _end_turn(s2, n),
                       result |-> [res1 EXCEPT !.exploded = TRUE, !.defused = TRUE,
                                               !.insert_position = r]]
                ELSE
                  LET s2 == [s1 EXCEPT !.players[idx].alive = FALSE,
                                       !.discard = Append(@, card)]
                  IN  [state |-> _end_turn(s2, n),
                       result |-> [res1 EXCEPT !.exploded = TRUE]]
              ELSE
                LET s2 == [s1 EXCEPT !.players[idx].hand = Append(@, card)]
                IN  [state |-> _end_turn(s2, n), result |-> res1]

\* A steal that gives the actor the card and leaves it with the target too.
Steal_copies(s, idx, target, r) ==
    IF Len(s.players[target].hand) > 0
    THEN [state |-> [s EXCEPT !.players[idx].hand =
                                  Append(@, s.players[target].hand[r + 1])],
          stolen |-> s.players[target].hand[r + 1]]
    ELSE [state |-> s, stolen |-> NoCard]

(***************************************************************************)
(* Game.execute_action                                                     *)
(***************************************************************************)
\* The steal of Favor and of a cat pair: when the target's hand is not empty,
\* target.hand.pop(r) then player.hand.append(stolen); r is what
\* random.randint(0, len(target.hand) - 1) returns.
Steal(s, idx, target, r) ==
    IF Len(s.players[target].hand) > 0
    THEN LET stolen == s.players[target].hand[r + 1]
             s1 == [s EXCEPT !.players[target].hand = Pop(@, r + 1)]
         IN  [state |-> [s1 EXCEPT !.players[idx].hand = Append(@, stolen)],
              stolen |-> stolen]
    ELSE [state |-> s, stolen |-> NoCard]

\* The played cards put under the discard pile instead of on it.
AfterPlay_under(s, action) ==
    LET idx == s.current_player_idx
        player == s.players[idx]
    IN  CASE action.type = "PlayCard" ->
               LET rm == remove_card(player, action.card_type)
               IN  [s EXCEPT !.players[idx] = rm.player,
                             !.discard = <<rm.card>> \o @]
          [] action.type = "PlayCatPair" ->
               LET rm1 == remove_card(player, action.card_type)
                   rm2 == remove_card(rm1.player, action.card_type)
               IN  [s EXCEPT !.players[idx] = rm2.player,
                             !.discard = <<action.card_type, action.card_type>> \o @]
          [] OTHER -> s

\* The state once the played card (PlayCard) or the two cat cards (PlayCatPair)
\* have left the hand and the discard pile has grown: lines 204-205, 238-241.
AfterPlay(s, action) ==
    LET idx == s.current_player_idx
        player == s.players[idx]
    IN  CASE action.type = "PlayCard" ->
               LET rm == remove_card(player, action.card_type)
               IN  [s EXCEPT !.players[idx] = rm.player,
                             !.discard = Append(@, rm.card)]
          [] action.type = "PlayCatPair" ->
               LET rm1 == remove_card(player, action.card_type)
                   rm2 == remove_card(rm1.player, action.card_type)
               IN  [s EXCEPT !.players[idx] = rm2.player,
                             !.discard = @ \o <<action.card_type, action.card_type>>]
          [] OTHER -> s

\* execute_action(action); r is the value the random generator returns to the
\* one call the action makes to it.  Gives the state left, the dict returned
\* and the exception raised ("None" when the call returns, "NoReturn" when the
\* call is caught in the loop of _advance_player or _do_attack, with the state
\* as the loop found it).
execute_action(s, n, action, r) ==
    LET idx == s.current_player_idx
        player == s.players[idx]
        res0 == [NoResult EXCEPT !.action = action, !.player = player.id]
        s1 == AfterPlay(s, action)
        \* lines 258-261
        return(s2, res) ==
            IF s2.current_player_idx = None
            THEN [state |-> [s2 EXCEPT !.current_player_idx = idx],
                  result |-> NoResult, raised |-> "NoReturn", appended |-> 0]
            ELSE [state |-> _check_game_over(s2), result |-> res,
                  raised |-> "None", appended |-> 1]
        \* players[None]: list indices must be integers
        typeError == [state |-> s1, result |-> NoResult, raised |-> "TypeError",
                      appended |-> 0]
    IN  CASE action.type = "Pass" ->
               LET d == _do_draw(s, n, r)
               IN  return(d.state, [d.result EXCEPT !.action = action,
                                                    !.player = player.id,
                                                    !.type = "pass"])
          [] action.type = "PlayCard" ->
               LET res1 == [res0 EXCEPT !.type = "play_card",
                                        !.card = action.card_type]
               IN  CASE action.card_type = ATTACK ->
                          return(_do_attack(s1, n), [res1 EXCEPT !.effect = "attack"])
                     [] action.card_type = SKIP ->
                          return(_do_skip(s1, n), [res1 EXCEPT !.effect = "skip"])
                     [] action.card_type = SHUFFLE ->
                          return(shuffle_deck(s1, r), [res1 EXCEPT !.effect = "shuffle"])
                     [] action.card_type = SEE_THE_FUTURE ->
                          return([s1 EXCEPT !.top_three_known_by = player.id],
                                 [res1 EXCEPT !.effect = "see_future",
                                              !.seen_cards = peek_top(s1.deck, 3)])
                     [] action.card_type = FAVOR ->
                          IF action.target_player_id = None THEN typeError
                          ELSE LET st == Steal(s1, idx, action.target_player_id, r)
                               IN  IF st.stolen = NoCard THEN return(s1, res1)
                                   ELSE return(st.state,
                                               [res1 EXCEPT !.effect = "favor",
                                                            !.stolen = st.stolen])
                     [] OTHER -> return(s1, res1)
          [] action.type = "PlayCatPair" ->
               IF action.target_player_id = None THEN typeError
               ELSE LET st == Steal(s1, idx, action.target_player_id, r)
                    IN  IF st.stolen = NoCard THEN return(s1, res0)
                        ELSE return(st.state, [res0 EXCEPT !.type = "cat_pair",
                                                           !.stolen = st.stolen])
          [] action.type = "InsertExplodingKitten" ->
               \* lines 251-256: ek = Card(CardType.EXPLODING_KITTEN)
               return([s EXCEPT !.deck = insert_card(@, EXPLODING_KITTEN,
                                                     action.position)],
                      [res0 EXCEPT !.type = "insert_ek",
                                   !.position = action.position])
          [] OTHER -> return(s, res0)

\* The values the random generator can return to the call execute_action(action)
\* makes to it: randint(0, len(deck)) after the pop of a hazard that is defused,
\* randint(0, len(target.hand) - 1) for a steal, the permutation of a shuffle.
RandomPicks(s, n, action) ==
    LET player == current_player(s)
        s1 == AfterPlay(s, action)
        t == action.target_player_id
        steals == \/ action.type = "PlayCatPair"
                  \/ action.type = "PlayCard" /\ action.card_type = FAVOR
    IN  CASE /\ action.type = "Pass"
             /\ Len(s.deck) > 0
             /\ s.deck[Len(s.deck)] = EXPLODING_KITTEN
             /\ has_card(player, DEFUSE) -> 0..(Len(s.deck) - 1)
          [] action.type = "PlayCard" /\ action.card_type = SHUFFLE -> 0..MaxShuffle
          [] steals /\ t # None /\ Len(s1.players[t].hand) > 0 ->
               0..(Len(s1.players[t].hand) - 1)
          [] OTHER -> {0}

(***************************************************************************)
(* The state machine                                                       *)
(***************************************************************************)
\* No game: the value of a variable that holds a Game before it is assigned.
NoGame == [players |-> <<>>]

\* determinize_game has not been called.
NoDet == [observer_id |-> None, game |-> NoGame]

\* No agent of mcts_agent.py plays.
NoSearch == [agent |-> "None"]

\* No playout is run on the game.
NoPlayout == [called |-> "None"]

\* No tree is grown.
NoTree == [agent |-> "None"]

\* No action_values are averaged.
NoSelection == [agent |-> "None"]

Range(seq) == {seq[i] : i \in 1..Len(seq)}

\* The actions get_legal_actions() offers the current player.
LegalActions == Range(get_legal_actions(state, num_players, state.current_player_idx))

\* Game(num_players): the state after construction.
Init ==
    /\ num_players \in 2..MaxPlayers
    /\ Len(BaseDeck) >= num_players * CardsDealt
    /\ \E r1, r2, r3 \in 0..MaxShuffle : state = _setup_game(num_players, r1, r2, r3)
    /\ history_len = 0
    /\ result = NoResult
    /\ raised = "None"
    /\ call = [state |-> state, action |-> NoAction]
    /\ illegal_calls = 0
    /\ det = NoDet
    /\ search = NoSearch
    /\ playout = NoPlayout
    /\ mcts = NoTree
    /\ selection = NoSelection

\* One call game.execute_action(action).  A call caught in the loop of
\* _advance_player or _do_attack is the caller's last.
Execute(action) ==
    /\ history_len < MaxActions
    /\ raised # "NoReturn"
    /\ \E r \in RandomPicks(state, num_players, action) :
          \E out \in {execute_action(state, num_players, action, r)} :
              /\ state' = out.state
              /\ result' = out.result
              /\ raised' = out.raised
              /\ history_len' = history_len + out.appended
    /\ call' = [state |-> state, action |-> action]
    /\ UNCHANGED <<num_players, det, search, playout, mcts, selection>>

ExecutePass == Execute(Pass) /\ UNCHANGED illegal_calls

ExecutePlayCard ==
    /\ \E a \in LegalActions : a.type = "PlayCard" /\ Execute(a)
    /\ UNCHANGED illegal_calls

ExecutePlayCatPair ==
    /\ \E a \in LegalActions : a.type = "PlayCatPair" /\ Execute(a)
    /\ UNCHANGED illegal_calls

\* The caller takes every action from get_legal_actions(), as run_single_game
\* and the playouts do.
Next == ExecutePass \/ ExecutePlayCard \/ ExecutePlayCatPair

Spec == Init /\ [][Next]_vars

(***************************************************************************)
(* A caller that is not held to get_legal_actions(): execute_action and    *)
(* Game() check nothing themselves.                                        *)
(***************************************************************************)
\* The cat kinds in the box.
CatKindsInBox ==
    {BASE_DECK_CONFIG[i].card_type : i \in DOMAIN BASE_DECK_CONFIG} \cap CAT_CARDS

\* The actions such a caller passes: a card played alone, a Favor and a cat
\* pair at any player or at no player.
ActionInputs(n) ==
    LET targets == (0..(n - 1)) \cup {None}
    IN  {Pass}
          \cup {PlayCard(k, None) : k \in {ATTACK, SKIP, SHUFFLE, SEE_THE_FUTURE, DEFUSE}}
          \cup {PlayCard(FAVOR, t) : t \in targets}
          \cup {PlayCatPair(k, t) : k \in CatKindsInBox, t \in targets}

\* Game(num_players) for any num_players >= 1 the box has the cards for.
InitAny ==
    /\ num_players \in 1..MaxPlayers
    /\ Len(BaseDeck) >= num_players * CardsDealt
    /\ \E r1, r2, r3 \in 0..MaxShuffle : state = _setup_game(num_players, r1, r2, r3)
    /\ history_len = 0
    /\ result = NoResult
    /\ raised = "None"
    /\ call = [state |-> state, action |-> NoAction]
    /\ illegal_calls = 0
    /\ det = NoDet
    /\ search = NoSearch
    /\ playout = NoPlayout
    /\ mcts = NoTree
    /\ selection = NoSelection

\* The InsertExplodingKitten actions such a caller passes: the bottom, the
\* place above the bottom card and the top of the deck.
InsertInputs(s) == {InsertExplodingKitten(p) : p \in {0, 1, Len(s.deck)}}

\* execute_action with an action get_legal_actions() does not offer.
ExecuteIllegal ==
    /\ illegal_calls < MaxIllegal
    /\ \E a \in (ActionInputs(num_players) \cup InsertInputs(state)) \ LegalActions :
          Execute(a)
    /\ illegal_calls' = illegal_calls + 1

NextAny ==
    \/ history_len < MaxActionsAny /\ ExecutePass
    \/ history_len < MaxActionsAny /\ ExecutePlayCard
    \/ history_len < MaxActionsAny /\ ExecutePlayCatPair
    \/ history_len < MaxActionsAny /\ ExecuteIllegal

SpecAny == InitAny /\ [][NextAny]_vars

(***************************************************************************)
(* mcts_agent.py: clone_game and determinize_game                          *)
(***************************************************************************)
\* clone_game: a new GameState built field by field from the game's, every
\* card a new Card of the same card_type.
clone_game(s) ==
    [players |-> [i \in DOMAIN s.players |->
                    [id |-> s.players[i].id,
                     hand |-> [k \in 1..Len(s.players[i].hand) |->
                                  s.players[i].hand[k]],
                     alive |-> s.players[i].alive]],
     deck |-> [k \in 1..Len(s.deck) |-> s.deck[k]],
     discard |-> [k \in 1..Len(s.discard) |-> s.discard[k]],
     current_player_idx |-> s.current_player_idx,
     turns_remaining |-> s.turns_remaining,
     game_over |-> s.game_over,
     winner |-> s.winner,
     top_three_known_by |-> s.top_three_known_by]

\* A clone that still refers to the deck list of the game it was made from.
clone_shares_deck == {"deck"}

\* The objects of the game that a clone_game copy still refers to: none, lines
\* 61-81 build a new Game, a new GameState, new Players and new lists of new
\* Cards.
clone_shares == {}

\* The caller's game once code working on its clone has left the clone as
\* copy: what the clone shares with the game changes with it.
WrittenThrough(game, copy, shares) ==
    IF "state" \in shares THEN copy
    ELSE [game EXCEPT
             !.players = IF "players" \in shares THEN copy.players ELSE @,
             !.deck = IF "deck" \in shares THEN copy.deck ELSE @,
             !.discard = IF "discard" \in shares THEN copy.discard ELSE @]

\* Whether determinize_game pools and deals the hand of player i: lines 99, 121.
Redealt(s, i, observer_id) ==
    s.players[i].id # observer_id /\ s.players[i].alive

\* The loop of lines 98-101: the hands of the players redealt, in index order.
PooledHands(s, n, observer_id) ==
    LET RECURSIVE build(_)
        build(i) ==
            IF i >= n THEN <<>>
            ELSE (IF Redealt(s, i, observer_id) THEN s.players[i].hand ELSE <<>>)
                    \o build(i + 1)
    IN  build(0)

\* A deal that gives every hand one card fewer than it had.
Popped_short(unknown_cards, size) ==
    LET k == Min(IF size > 0 THEN size - 1 ELSE 0, Len(unknown_cards))
    IN  [i \in 1..k |-> unknown_cards[Len(unknown_cards) + 1 - i]]

\* The loop of lines 124-126: size times unknown_cards.pop(), as long as a card
\* is left, each card appended to the hand.
Popped(unknown_cards, size) ==
    LET k == Min(size, Len(unknown_cards))
    IN  [i \in 1..k |-> unknown_cards[Len(unknown_cards) + 1 - i]]

\* The loop of lines 120-126 from player i on: the players with their new hands
\* and the cards left.
RECURSIVE Redistribute(_, _, _, _, _)
Redistribute(s, n, observer_id, i, unknown_cards) ==
    IF i >= n THEN [players |-> s.players, unknown_cards |-> unknown_cards]
    ELSE IF Redealt(s, i, observer_id)
         THEN LET hand == Popped(unknown_cards, Len(s.players[s.players[i].id].hand))
                  left == SubSeq(unknown_cards, 1, Len(unknown_cards) - Len(hand))
                  next == Redistribute(s, n, observer_id, i + 1, left)
              IN  [next EXCEPT !.players[i].hand = hand]
         ELSE Redistribute(s, n, observer_id, i + 1, unknown_cards)

\* determinize_game(game, observer_id); r is the generator's pick for
\* random.shuffle(unknown_cards).
determinize_game(s, n, observer_id, r) ==
    LET det_game == clone_game(s)
        observer_knows_top == det_game.top_three_known_by = observer_id
        keeps == observer_knows_top /\ Len(det_game.deck) >= 3
        top_three == SubSeq(det_game.deck, Len(det_game.deck) - 2, Len(det_game.deck))
        rest == SubSeq(det_game.deck, 1, Len(det_game.deck) - 3)
        unknown_cards ==
            Shuffled(PooledHands(det_game, n, observer_id)
                        \o (IF keeps THEN rest ELSE det_game.deck), r)
        dealt == Redistribute(det_game, n, observer_id, 0, unknown_cards)
    IN  [det_game EXCEPT
            !.players = dealt.players,
            !.deck = dealt.unknown_cards
                        \o (IF observer_knows_top /\ Len(s.deck) >= 3
                            THEN top_three ELSE <<>>)]

(***************************************************************************)
(* Games to determinize: a game some way into play, with short hands and a *)
(* short deck.                                                             *)
(***************************************************************************)
\* The hands the players hold, by position: player i holds the hand at place
\* i + k, for a shift k.
HandChoices ==
    <<<<DEFUSE>>,
      <<NOPE, SKIP>>,
      <<"CAT_TACOCAT", ATTACK, "CAT_TACOCAT">>,
      <<>>>>

\* The decks are the runs of up to MaxDeck cards of this sequence.
DeckPattern == <<EXPLODING_KITTEN, NOPE, SKIP, EXPLODING_KITTEN, DEFUSE, FAVOR>>

DeckChoices ==
    {SubSeq(DeckPattern, i, j) :
        i \in 1..Len(DeckPattern), j \in 0..Len(DeckPattern)}

\* A game of n players in play: hands by shift k, the players of dead
\* eliminated by a hazard each, the deck holding a hazard for every alive
\* player but one, and known (a player or None) the one who played the last
\* See the Future.
GameInPlay(n, k, dead, deck, known) ==
    LET alive == (0..(n - 1)) \ dead
    IN  [players |-> [i \in 0..(n - 1) |->
                        [id |-> i,
                         hand |-> HandChoices[((i + k) % Len(HandChoices)) + 1],
                         alive |-> i \notin dead]],
         deck |-> deck,
         discard |-> Repeat(EXPLODING_KITTEN, Cardinality(dead))
                        \o (IF known = None THEN <<>> ELSE <<SEE_THE_FUTURE>>),
         current_player_idx |-> CHOOSE i \in alive : \A j \in alive : i <= j,
         turns_remaining |-> 1,
         game_over |-> FALSE,
         winner |-> None,
         top_three_known_by |-> known]

\* The decks of at most MaxDeck cards that hold the given number of hazards.
DecksWith(hazards) ==
    {d \in DeckChoices :
        /\ Len(d) <= MaxDeck
        /\ Cardinality({i \in 1..Len(d) : d[i] = EXPLODING_KITTEN}) = hazards}

GamesInPlay(n) ==
    UNION {{GameInPlay(n, k, dead, deck, known) :
                k \in 0..(Len(HandChoices) - 1),
                deck \in DecksWith(n - Cardinality(dead) - 1),
                known \in (0..(n - 1)) \cup {None}} :
           dead \in {d \in SUBSET (0..(n - 1)) : n - Cardinality(d) >= 2}}

\* A game in play, before determinize_game is called on it.
InitDet ==
    /\ num_players \in 2..MaxPlayers
    /\ state \in GamesInPlay(num_players)
    /\ history_len = 0
    /\ result = NoResult
    /\ raised = "None"
    /\ call = [state |-> state, action |-> NoAction]
    /\ illegal_calls = 0
    /\ det = NoDet
    /\ search = NoSearch
    /\ playout = NoPlayout
    /\ mcts = NoTree
    /\ selection = NoSelection

\* One call determinize_game(game, observer_id), for any player as observer.
Determinize ==
    /\ \E observer_id \in 0..(num_players - 1) :
          \E r \in 0..MaxShuffle :
              det' = [observer_id |-> observer_id,
                      game |-> determinize_game(state, num_players, observer_id, r)]
    /\ state' = WrittenThrough(state, det'.game, clone_shares)
    /\ UNCHANGED <<num_players, history_len, result, raised, call,
                   illegal_calls, search, playout, mcts, selection>>

NextDet == Determinize

SpecDet == InitDet /\ [][NextDet]_vars

(***************************************************************************)
(* The module-level generator of random, seeded.  Its state is a number;   *)
(* every call steps the state and derives its value from the new state.    *)
(***************************************************************************)
\* random.seed that leaves the generator where it is.
seed_ignored(rng, k) == rng

\* random.seed(k): the state depends on k alone.
seed(rng, k) == (k * 5 + 1) % 64

\* The state after one call.
NextRandom(rng) == (rng * 13 + 7) % 64

\* The value in 0..m-1 a call returns that leaves the generator in state rng.
Randbelow(rng, m) == (rng \div 4) % m

\* Whether execute_action(action) calls the generator: randint for a defused
\* hazard and for a steal, shuffle for a Shuffle.
UsesRandom(s, n, action) ==
    LET player == current_player(s)
        s1 == AfterPlay(s, action)
        t == action.target_player_id
        steals == \/ action.type = "PlayCatPair"
                  \/ action.type = "PlayCard" /\ action.card_type = FAVOR
    IN  \/ /\ action.type = "Pass"
           /\ Len(s.deck) > 0
           /\ s.deck[Len(s.deck)] = EXPLODING_KITTEN
           /\ has_card(player, DEFUSE)
        \/ action.type = "PlayCard" /\ action.card_type = SHUFFLE
        \/ steals /\ t # None /\ Len(s1.players[t].hand) > 0

\* What a call left, with the generator's state after it.
Seeded(out, rng) == [state |-> out.state, raised |-> out.raised, rng |-> rng]

\* execute_action(action) with the generator in state rng: the state left, the
\* exception raised and the generator's state afterwards.
execute_seeded(s, n, action, rng) ==
    IF UsesRandom(s, n, action)
    THEN Seeded(execute_action(s, n, action,
                               Randbelow(NextRandom(rng),
                                         Cardinality(RandomPicks(s, n, action)))),
                NextRandom(rng))
    ELSE Seeded(execute_action(s, n, action, 0), rng)

(***************************************************************************)
(* mcts_agent.py: the playouts                                             *)
(***************************************************************************)
\* The first action of the list that is in the set wanted, NoAction when the
\* list holds none.
FirstIn(actions, wanted) ==
    IF \E i \in 1..Len(actions) : actions[i] \in wanted
    THEN actions[CHOOSE i \in 1..Len(actions) :
                    /\ actions[i] \in wanted
                    /\ \A j \in 1..(i - 1) : actions[j] \notin wanted]
    ELSE NoAction

\* The PlayCard actions of the kinds given.
Plays(kinds) == {PlayCard(k, None) : k \in kinds}

\* A loop "for action in legal_actions: if <wanted>: if random.random() <
\* tenths / 10: return action" from place i on: the action returned (NoAction
\* when the loop ends without a return) and the generator's state.
RECURSIVE TryEach(_, _, _, _, _)
TryEach(actions, wanted, tenths, i, rng) ==
    IF i > Len(actions) THEN [action |-> NoAction, rng |-> rng]
    ELSE IF wanted[i]
         THEN LET rng1 == NextRandom(rng)
              IN  IF Randbelow(rng1, 10) < tenths
                  THEN [action |-> actions[i], rng |-> rng1]
                  ELSE TryEach(actions, wanted, tenths, i + 1, rng1)
         ELSE TryEach(actions, wanted, tenths, i + 1, rng)

\* random.choice(seq)
choice(seq, rng) ==
    LET rng1 == NextRandom(rng)
    IN  [value |-> seq[Randbelow(rng1, Len(seq)) + 1], rng |-> rng1]

\* An action random.choice returned.
Chosen(c) == [action |-> c.value, rng |-> c.rng]

\* select_heuristic_action(game, legal_actions)
select_heuristic_action(s, legal_actions, rng) ==
    LET player == current_player(s)
        deck_size == Len(s.deck)
        has_defuse == has_card(player, DEFUSE)
        top_cards == peek_top(s.deck, 3)
        flee == FirstIn(legal_actions, Plays({SKIP, ATTACK}))
        dodge == FirstIn(legal_actions, Plays({SHUFFLE, SKIP, ATTACK}))
        see == TryEach(legal_actions,
                       [i \in 1..Len(legal_actions) |->
                           legal_actions[i] = PlayCard(SEE_THE_FUTURE, None)],
                       3, 1, rng)
        rng3 == IF s.top_three_known_by # player.id THEN see.rng ELSE rng
        attack == TryEach(legal_actions,
                          [i \in 1..Len(legal_actions) |->
                              /\ legal_actions[i].type = "PlayCard"
                              /\ legal_actions[i].card_type = ATTACK],
                          4, 1, rng3)
        pair == TryEach(legal_actions,
                        [i \in 1..Len(legal_actions) |->
                            legal_actions[i].type = "PlayCatPair"],
                        3, 1, attack.rng)
        any == choice(legal_actions, pair.rng)
    IN  IF deck_size <= 3 /\ ~has_defuse /\ flee # NoAction
        THEN [action |-> flee, rng |-> rng]
        ELSE IF /\ s.top_three_known_by = player.id
                /\ Len(top_cards) > 0
                /\ top_cards[1] = EXPLODING_KITTEN
                /\ dodge # NoAction
        THEN [action |-> dodge, rng |-> rng]
        ELSE IF s.top_three_known_by # player.id /\ see.action # NoAction
        THEN see
        ELSE IF attack.action # NoAction THEN attack
        ELSE IF pair.action # NoAction THEN pair
        ELSE [action |-> any.value, rng |-> any.rng]

\* The action a playout picks: line 150 or line 170.
Picked(s, legal_actions, use_heuristics, rng) ==
    IF use_heuristics
    THEN select_heuristic_action(s, legal_actions, rng)
    ELSE Chosen(choice(legal_actions, rng))

\* The loop of lines 144-152 and of lines 162-172 after moves moves: the game
\* it leaves, the moves made and the generator's state.
RECURSIVE Playout(_, _, _, _, _, _)

\* The loop after game.execute_action(action) left done; an exception of
\* execute_action ends the playout.
PlayoutFrom(done, n, use_heuristics, max_moves, moves) ==
    IF done.raised # "None"
    THEN [state |-> done.state, moves |-> moves, rng |-> done.rng,
          raised |-> done.raised]
    ELSE Playout(done.state, n, use_heuristics, max_moves, moves, done.rng)

\* game.execute_action(action) on the picked action.
Played(s, n, picked) == execute_seeded(s, n, picked.action, picked.rng)

Playout(s, n, use_heuristics, max_moves, moves, rng) ==
    IF s.game_over \/ moves >= max_moves
    THEN [state |-> s, moves |-> moves, rng |-> rng, raised |-> "None"]
    ELSE PlayoutFrom(
             Played(s, n,
                    Picked(s, get_legal_actions(s, n, s.current_player_idx),
                           use_heuristics, rng)),
             n, use_heuristics, max_moves, moves + 1)

\* A playout that names the player to move as its winner.
PlayoutResult_current(end) ==
    [winner |-> end.state.current_player_idx, moves |-> end.moves,
     rng |-> end.rng, state |-> end.state, raised |-> end.raised]

\* return game.get_winner(), with the moves made, the generator's state and
\* the state the playout ended in.
PlayoutResult(end) ==
    [winner |-> end.state.winner, moves |-> end.moves, rng |-> end.rng,
     state |-> end.state, raised |-> end.raised]

\* simulate_random_playout(game, max_moves)
simulate_random_playout(s, n, max_moves, rng) ==
    PlayoutResult(Playout(s, n, FALSE, max_moves, 0, rng))

\* simulate_with_heuristics(game, player_id, max_moves)
simulate_with_heuristics(s, n, max_moves, rng) ==
    PlayoutResult(Playout(s, n, TRUE, max_moves, 0, rng))

(***************************************************************************)
(* A playout on a game in play, with the generator seeded before the call. *)
(***************************************************************************)
\* A game in play, the max_moves of the call to come and the caller's seed.
InitPlayout ==
    /\ num_players \in 2..MaxPlayers
    /\ state \in GamesInPlay(num_players)
    /\ history_len = 0
    /\ result = NoResult
    /\ raised = "None"
    /\ call = [state |-> state, action |-> NoAction]
    /\ illegal_calls = 0
    /\ det = NoDet
    /\ search = NoSearch
    /\ mcts = NoTree
    /\ selection = NoSelection
    /\ \E max_moves \in 0..MaxMoves :
          \E k \in 0..MaxSeed :
              playout = [called |-> "Nothing", max_moves |-> max_moves,
                         seed |-> k, game |-> state, winner |-> None,
                         moves |-> 0, raised |-> "None"]

\* The playout called leaves out: it plays on the game it is given.
Simulate(called, out) ==
    /\ state' = out.state
    /\ playout' = [playout EXCEPT !.called = called,
                                  !.winner = out.winner,
                                  !.moves = out.moves,
                                  !.raised = out.raised]
    /\ UNCHANGED <<num_players, history_len, result, raised, call,
                   illegal_calls, det, search, mcts, selection>>

\* random.seed(k); simulate_random_playout(game, max_moves)
SimulateRandom ==
    /\ playout.called = "Nothing"
    /\ \E out \in {simulate_random_playout(state, num_players,
                                           playout.max_moves,
                                           seed(0, playout.seed))} :
          Simulate("simulate_random_playout", out)

\* random.seed(k); simulate_with_heuristics(game, player_id, max_moves)
SimulateWithHeuristics ==
    /\ playout.called = "Nothing"
    /\ \E out \in {simulate_with_heuristics(state, num_players,
                                            playout.max_moves,
                                            seed(0, playout.seed))} :
          Simulate("simulate_with_heuristics", out)

NextPlayout == SimulateRandom \/ SimulateWithHeuristics

SpecPlayout == InitPlayout /\ [][NextPlayout]_vars

(***************************************************************************)
(* mcts_agent.py: the search tree.  A tree is a function from the paths of *)
(* its nodes, the keys from the root down, to the nodes; a node's parent   *)
(* is the node at the path without its last key.                           *)
(***************************************************************************)
\* str(x) of an int or None.
str(x) == IF x = None THEN "None" ELSE ToString(x)

\* action_to_key that leaves the target out of the key.
action_to_key_no_target(action) ==
    CASE action.type = "Pass" -> "pass"
      [] action.type = "PlayCard" -> "play_" \o action.card_type
      [] action.type = "PlayCatPair" -> "pair_" \o action.card_type
      [] OTHER -> action.type \o "(position=" \o str(action.position) \o ")"

\* action_to_key: the string the f-string builds; a card kind is written as
\* its enum name.  The last case is str(action), the repr of the dataclass.
action_to_key(action) ==
    CASE action.type = "Pass" -> "pass"
      [] action.type = "PlayCard" ->
            "play_" \o action.card_type \o "_" \o str(action.target_player_id)
      [] action.type = "PlayCatPair" ->
            "pair_" \o action.card_type \o "_" \o str(action.target_player_id)
      [] OTHER -> action.type \o "(position=" \o str(action.position) \o ")"

\* MCTSNode(state_hash, parent, action)
MCTSNode(state_hash, action) ==
    [state_hash |-> state_hash, action |-> action, children |-> <<>>,
     visits |-> 0, wins |-> 0]

\* MCTSNode(state_hash="root")
RootTree == (<<>> :> MCTSNode("root", NoAction))

\* sqrt(log(N) / v) in ten-thousandths, at place [N][v], for 1 <= v <= N.
SqrtLogOver ==
    <<<<0>>,
      <<8326, 5887>>,
      <<10481, 7412, 6051>>,
      <<11774, 8326, 6798, 5887>>,
      <<12686, 8971, 7324, 6343, 5674>>,
      <<13386, 9465, 7728, 6693, 5986, 5465>>,
      <<13950, 9864, 8054, 6975, 6238, 5695, 5272>>,
      <<14420, 10197, 8326, 7210, 6449, 5887, 5450, 5098>>,
      <<14823, 10481, 8558, 7412, 6629, 6051, 5603, 5241, 4941>>>>

\* A comparison that prefers the lower wins / visits.
UcbAbove_reversed(a, b, N, exploration) ==
    IF b.visits = 0 THEN FALSE
    ELSE IF a.visits = 0 THEN TRUE
    ELSE a.wins * b.visits < b.wins * a.visits

\* a.ucb1(exploration) > b.ucb1(exploration) for two children a and b of a
\* node visited N times; exploration in hundredths.  Both sides are the
\* ucb1 values times 1000000 * a.visits * b.visits.
UcbAbove(a, b, N, exploration) ==
    IF b.visits = 0 THEN FALSE
    ELSE IF a.visits = 0 THEN TRUE
    ELSE 1000000 * a.wins * b.visits
            + exploration * SqrtLogOver[N][a.visits] * a.visits * b.visits
         > 1000000 * b.wins * a.visits
            + exploration * SqrtLogOver[N][b.visits] * a.visits * b.visits

\* A choice that takes the first child whatever the statistics.
best_child_first(tree, path, exploration) == tree[path].children[1]

\* best_child: the key of the first child, in the order of the children dict,
\* whose ucb1 no other child's exceeds.
best_child(tree, path, exploration) ==
    LET keys == tree[path].children
        RECURSIVE best(_, _)
        best(i, k) ==
            IF i > Len(keys) THEN k
            ELSE best(i + 1,
                      IF UcbAbove(tree[Append(path, keys[i])], tree[Append(path, k)],
                                  tree[path].visits, exploration)
                      THEN keys[i] ELSE k)
    IN  best(2, keys[1])

\* The selection loop of _mcts_iteration from the node at path on: the node it
\* ends at, the simulated game, the generator's state and the actions applied
\* on the way.
RECURSIVE Select(_, _, _, _, _, _)

\* The loop after sim_game.execute_action(node.action) left done.
SelectFrom(tree, done, n, child, exploration) ==
    Select(tree, done.state, n, child, exploration, done.rng)

\* An action given to sim_game.execute_action, and whether
\* sim_game.get_legal_actions() lists it at that moment.
AppliedTo(sim_game, n, action) ==
    [action |-> action,
     legal |-> \E i \in 1..Len(get_legal_actions(sim_game, n,
                                                  sim_game.current_player_idx)) :
                  get_legal_actions(sim_game, n,
                                    sim_game.current_player_idx)[i] = action]

\* What selection ended with, after the action noted was applied first.
Noted(applied, sel) == [sel EXCEPT !.applied = <<applied>> \o @]

\* Lines 298-302: the best child joins the path and its action is executed.
Descend(tree, sim_game, n, child, exploration, rng) ==
    Noted(AppliedTo(sim_game, n, tree[child].action),
          SelectFrom(tree, execute_seeded(sim_game, n, tree[child].action, rng),
                     n, child, exploration))

Select(tree, sim_game, n, path, exploration, rng) ==
    IF Len(tree[path].children) > 0 /\ ~sim_game.game_over
    THEN Descend(tree, sim_game, n,
                 Append(path, best_child(tree, path, exploration)),
                 exploration, rng)
    ELSE [path |-> path, state |-> sim_game, rng |-> rng, applied |-> <<>>]

\* The loop of lines 307-315 from place i of current_legal on: a child of the
\* node at path for every action whose key the node has no child for.
RECURSIVE Expand(_, _, _, _)
Expand(tree, path, current_legal, i) ==
    IF i > Len(current_legal) THEN tree
    ELSE LET action == current_legal[i]
             action_key == action_to_key(action)
         IN  IF \E j \in 1..Len(tree[path].children) :
                    tree[path].children[j] = action_key
             THEN Expand(tree, path, current_legal, i + 1)
             ELSE Expand([tree EXCEPT ![path].children = Append(@, action_key)]
                            @@ (Append(path, action_key)
                                    :> MCTSNode(action_key, action)),
                         path, current_legal, i + 1)

\* An update that reaches the last node of the path only.
Backpropagate_leaf(tree, path, playout_result) ==
    [q \in DOMAIN tree |->
        IF q = path
        THEN [tree[q] EXCEPT !.visits = @ + 1, !.wins = @ + playout_result]
        ELSE tree[q]]

\* The loop of lines 333-335: every node on the path gets a visit and the
\* result.
Backpropagate(tree, path, playout_result) ==
    [q \in DOMAIN tree |->
        IF Len(q) <= Len(path) /\ q = SubSeq(path, 1, Len(q))
        THEN [tree[q] EXCEPT !.visits = @ + 1, !.wins = @ + playout_result]
        ELSE tree[q]]

\* Line 305: whether the node selection ended at, sel, is expanded.
Expands(tree, sel) == ~sel.state.game_over /\ tree[sel.path].visits > 0

\* Lines 305-315: the tree after the expansion step.
Expanded(tree, sel, n, legal_actions) ==
    IF Expands(tree, sel)
    THEN Expand(tree, sel.path,
                IF sel.path # <<>>
                THEN get_legal_actions(sel.state, n, sel.state.current_player_idx)
                ELSE legal_actions,
                1)
    ELSE tree

\* The node a playout starts from: the tree, the path to the node, the
\* simulated game, the generator's state and the actions applied to the
\* simulated game so far.
Leaf(tree, path, sim_game, rng, applied) ==
    [tree |-> tree, path |-> path, state |-> sim_game, rng |-> rng,
     applied |-> applied]

\* The leaf after sim_game.execute_action(node.action) left done.
SeededLeaf(tree, path, done, applied) ==
    Leaf(tree, path, done.state, done.rng, applied)

\* Lines 320-323: the child picked joins the path and its action is executed.
Entered(tree, sel, n, path, rng) ==
    SeededLeaf(tree, path,
               execute_seeded(sel.state, n, tree[path].action, rng),
               Append(sel.applied, AppliedTo(sel.state, n, tree[path].action)))

\* Lines 318-319: random.choice among the keys of the expanded node's
\* children.
Simulated(tree, sel, n, picked) ==
    Entered(tree, sel, n, Append(sel.path, picked.value), picked.rng)

\* Lines 317-323 on the tree the expansion step left; expands tells whether
\* that step ran.
Descended(tree, sel, n, expands) ==
    IF expands /\ Len(tree[sel.path].children) > 0
    THEN Simulated(tree, sel, n, choice(tree[sel.path].children, sel.rng))
    ELSE Leaf(tree, sel.path, sel.state, sel.rng, sel.applied)

\* Lines 331-335: the playout's result goes up the path.
Backpropagated(leaf, simulated, player_id) ==
    [tree |-> Backpropagate(leaf.tree, leaf.path,
                            IF simulated.winner = player_id THEN 1 ELSE 0),
     path |-> leaf.path,
     winner |-> simulated.winner,
     rng |-> simulated.rng,
     state |-> simulated.state,
     applied |-> leaf.applied,
     moves |-> simulated.moves]

\* Lines 325-335: the playout from the leaf and the backpropagation.
Simulation(leaf, n, player_id, use_heuristics) ==
    Backpropagated(leaf,
                   IF use_heuristics
                   THEN simulate_with_heuristics(leaf.state, n, MaxMoves, leaf.rng)
                   ELSE simulate_random_playout(leaf.state, n, MaxMoves, leaf.rng),
                   player_id)

\* Lines 304-335 after selection ended at sel.
AfterSelection(tree, sel, n, legal_actions, player_id, use_heuristics) ==
    Simulation(Descended(Expanded(tree, sel, n, legal_actions), sel, n,
                         Expands(tree, sel)),
               n, player_id, use_heuristics)

\* What an iteration leaves: the tree, the path it backpropagated over, the
\* playout's winner, the generator's state, the simulated game at the end of
\* the playout, and the game the iteration was given (line 292 clones it).
Iterated(game, it) ==
    [game |-> WrittenThrough(game, it.state, clone_shares)] @@ it

\* _mcts_iteration(game, root, legal_actions) of an agent with the given
\* player_id, exploration and use_heuristics: the tree and the generator's
\* state it leaves, the path it backpropagated over and the playout's winner.
_mcts_iteration(game, n, tree, legal_actions, player_id, exploration, use_heuristics, rng) ==
    Iterated(game,
             AfterSelection(tree,
                            Select(tree, clone_game(game), n, <<>>, exploration,
                                   rng),
                            n, legal_actions, player_id, use_heuristics))

(***************************************************************************)
(* mcts_agent.py: MCTSAgent.choose_action                                  *)
(***************************************************************************)
\* determinize_game(game, observer_id) with the generator in state rng.
determinize_seeded(game, n, observer_id, rng) ==
    LET rng1 == NextRandom(rng)
    IN  [game |-> determinize_game(game, n, observer_id,
                                   Randbelow(rng1, MaxShuffle + 1)),
         rng |-> rng1]

\* The loop of lines 257-258 with left iterations to go.
RECURSIVE Iterations(_, _, _, _, _, _, _, _, _)

\* The loop after an iteration left it.
IterationsFrom(det_game, n, it, legal_actions, player_id, exploration, use_heuristics, left) ==
    Iterations(it.game, n, it.tree, legal_actions, player_id, exploration,
               use_heuristics, left, it.rng)

Iterations(det_game, n, tree, legal_actions, player_id, exploration, use_heuristics, left, rng) ==
    IF left <= 0 THEN [tree |-> tree, rng |-> rng, game |-> det_game]
    ELSE IterationsFrom(det_game, n,
                        _mcts_iteration(det_game, n, tree, legal_actions,
                                        player_id, exploration, use_heuristics,
                                        rng),
                        legal_actions, player_id, exploration, use_heuristics,
                        left - 1)

\* action_values[action_key].append(ratio) on a dict kept as the sequence of
\* its items in insertion order.
Appended(action_values, action_key, ratio) ==
    IF \E i \in 1..Len(action_values) : action_values[i].key = action_key
    THEN [i \in 1..Len(action_values) |->
            IF action_values[i].key = action_key
            THEN [action_values[i] EXCEPT !.values = Append(@, ratio)]
            ELSE action_values[i]]
    ELSE Append(action_values, [key |-> action_key, values |-> <<ratio>>])

\* The loop of lines 261-263 from place i of root.children on; a ratio
\* child.wins / child.visits is kept as the pair of the two.
RECURSIVE Collect(_, _, _)
Collect(action_values, tree, i) ==
    IF i > Len(tree[<<>>].children) THEN action_values
    ELSE LET action_key == tree[<<>>].children[i]
             child == tree[<<action_key>>]
         IN  Collect(IF child.visits > 0
                     THEN Appended(action_values, action_key,
                                   [wins |-> child.wins, visits |-> child.visits])
                     ELSE action_values,
                     tree, i + 1)

(***************************************************************************)
(* Line 272, avg_value = sum(values) / len(values), in double precision.   *)
(* sum adds the ratios from left to right starting at 0, rounding after    *)
(* every addition, so a sum can fall one unit in the last place short of   *)
(* the exact one: 1/2 + 2/3 + 1/3 gives 1.4999999999999998.  The doubles   *)
(* met are kept by number: double k, for k up to 11, is the k-th smallest  *)
(* ratio wins / visits with visits <= 5, and the further ones are the sums *)
(* of up to 5 ratios with visits <= 3.                                     *)
(***************************************************************************)
\* child.wins / child.visits of line 263: the double, at place
\* [visits][wins + 1].
FloatOfRatio ==
    <<<<1, 11>>,
      <<1, 6, 11>>,
      <<1, 4, 8, 11>>,
      <<1, 3, 6, 9, 11>>,
      <<1, 2, 5, 7, 10, 11>>>>

\* The double s + r for a double s and a ratio r, at place [s][r]; 0 where
\* the sum is of more ratios than the tables hold.
FloatPlus ==
    <<<<1, 2, 3, 4, 5, 6, 7, 8, 9, 10, 11>>,
      <<0, 0, 0, 0, 0, 0, 0, 0, 0, 0, 0>>,
      <<0, 0, 0, 0, 0, 0, 0, 0, 0, 0, 0>>,
      <<4, 0, 0, 8, 0, 12, 0, 11, 0, 0, 13>>,
      <<0, 0, 0, 0, 0, 0, 0, 0, 0, 0, 0>>,
      <<6, 0, 0, 12, 0, 11, 0, 14, 0, 0, 15>>,
      <<0, 0, 0, 0, 0, 0, 0, 0, 0, 0, 0>>,
      <<8, 0, 0, 11, 0, 14, 0, 13, 0, 0, 16>>,
      <<0, 0, 0, 0, 0, 0, 0, 0, 0, 0, 0>>,
      <<0, 0, 0, 0, 0, 0, 0, 0, 0, 0, 0>>,
      <<11, 0, 0, 13, 0, 15, 0, 16, 0, 0, 17>>,
      <<12, 0, 0, 14, 0, 13, 0, 15, 0, 0, 18>>,
      <<13, 0, 0, 16, 0, 18, 0, 17, 0, 0, 19>>,
      <<14, 0, 0, 20, 0, 16, 0, 21, 0, 0, 22>>,
      <<15, 0, 0, 18, 0, 17, 0, 22, 0, 0, 23>>,
      <<16, 0, 0, 24, 0, 22, 0, 19, 0, 0, 25>>,
      <<17, 0, 0, 26, 0, 23, 0, 25, 0, 0, 27>>,
      <<18, 0, 0, 22, 0, 19, 0, 23, 0, 0, 28>>,
      <<19, 0, 0, 25, 0, 28, 0, 29, 0, 0, 30>>,
      <<20, 0, 0, 21, 0, 24, 0, 22, 0, 0, 23>>,
      <<21, 0, 0, 22, 0, 19, 0, 31, 0, 0, 28>>,
      <<22, 0, 0, 23, 0, 25, 0, 28, 0, 0, 32>>,
      <<23, 0, 0, 33, 0, 27, 0, 32, 0, 0, 34>>,
      <<24, 0, 0, 19, 0, 23, 0, 25, 0, 0, 27>>,
      <<25, 0, 0, 27, 0, 32, 0, 30, 0, 0, 35>>,
      <<26, 0, 0, 36, 0, 33, 0, 27, 0, 0, 37>>,
      <<27, 0, 0, 37, 0, 34, 0, 35, 0, 0, 38>>,
      <<28, 0, 0, 32, 0, 30, 0, 39, 0, 0, 40>>,
      <<29, 0, 0, 30, 0, 39, 0, 41, 0, 0, 42>>,
      <<30, 0, 0, 35, 0, 40, 0, 42, 0, 0, 43>>,
      <<31, 0, 0, 28, 0, 29, 0, 44, 0, 0, 39>>,
      <<32, 0, 0, 34, 0, 35, 0, 40, 0, 0, 45>>,
      <<33, 0, 0, 46, 0, 37, 0, 34, 0, 0, 47>>,
      <<34, 0, 0, 47, 0, 38, 0, 48, 0, 0, 49>>,
      <<35, 0, 0, 38, 0, 45, 0, 43, 0, 0, 50>>,
      <<36, 0, 0, 51, 0, 46, 0, 37, 0, 0, 52>>,
      <<37, 0, 0, 52, 0, 47, 0, 38, 0, 0, 53>>,
      <<38, 0, 0, 43, 0, 49, 0, 54, 0, 0, 55>>,
      <<0, 0, 0, 0, 0, 0, 0, 0, 0, 0, 0>>,
      <<0, 0, 0, 0, 0, 0, 0, 0, 0, 0, 0>>,
      <<0, 0, 0, 0, 0, 0, 0, 0, 0, 0, 0>>,
      <<0, 0, 0, 0, 0, 0, 0, 0, 0, 0, 0>>,
      <<0, 0, 0, 0, 0, 0, 0, 0, 0, 0, 0>>,
      <<0, 0, 0, 0, 0, 0, 0, 0, 0, 0, 0>>,
      <<0, 0, 0, 0, 0, 0, 0, 0, 0, 0, 0>>,
      <<0, 0, 0, 0, 0, 0, 0, 0, 0, 0, 0>>,
      <<0, 0, 0, 0, 0, 0, 0, 0, 0, 0, 0>>,
      <<0, 0, 0, 0, 0, 0, 0, 0, 0, 0, 0>>,
      <<0, 0, 0, 0, 0, 0, 0, 0, 0, 0, 0>>,
      <<0, 0, 0, 0, 0, 0, 0, 0, 0, 0, 0>>,
      <<0, 0, 0, 0, 0, 0, 0, 0, 0, 0, 0>>,
      <<0, 0, 0, 0, 0, 0, 0, 0, 0, 0, 0>>,
      <<0, 0, 0, 0, 0, 0, 0, 0, 0, 0, 0>>,
      <<0, 0, 0, 0, 0, 0, 0, 0, 0, 0, 0>>,
      <<0, 0, 0, 0, 0, 0, 0, 0, 0, 0, 0>>>>

\* The place of the double s / len among the means in increasing order, at
\* place [s][len]: equal doubles have equal places.
FloatMeanRank ==
    <<<<1, 1, 1, 1, 1>>,
      <<9, 0, 0, 0, 0>>,
      <<13, 0, 0, 0, 0>>,
      <<19, 8, 5, 3, 2>>,
      <<26, 0, 0, 0, 0>>,
      <<36, 13, 8, 6, 4>>,
      <<45, 0, 0, 0, 0>>,
      <<53, 19, 11, 8, 7>>,
      <<63, 0, 0, 0, 0>>,
      <<70, 0, 0, 0, 0>>,
      <<81, 36, 19, 13, 9>>,
      <<0, 27, 15, 10, 8>>,
      <<0, 53, 29, 19, 14>>,
      <<0, 42, 24, 16, 12>>,
      <<0, 63, 36, 23, 18>>,
      <<0, 71, 40, 27, 19>>,
      <<0, 81, 53, 36, 26>>,
      <<0, 0, 47, 31, 21>>,
      <<0, 0, 66, 42, 32>>,
      <<0, 0, 35, 22, 17>>,
      <<0, 0, 47, 30, 20>>,
      <<0, 0, 58, 39, 28>>,
      <<0, 0, 72, 49, 36>>,
      <<0, 0, 53, 35, 25>>,
      <<0, 0, 76, 53, 37>>,
      <<0, 0, 67, 43, 33>>,
      <<0, 0, 81, 63, 45>>,
      <<0, 0, 0, 56, 41>>,
      <<0, 0, 0, 62, 44>>,
      <<0, 0, 0, 71, 53>>,
      <<0, 0, 0, 48, 34>>,
      <<0, 0, 0, 68, 51>>,
      <<0, 0, 0, 57, 41>>,
      <<0, 0, 0, 75, 55>>,
      <<0, 0, 0, 78, 60>>,
      <<0, 0, 0, 54, 38>>,
      <<0, 0, 0, 72, 54>>,
      <<0, 0, 0, 81, 70>>,
      <<0, 0, 0, 0, 55>>,
      <<0, 0, 0, 0, 64>>,
      <<0, 0, 0, 0, 59>>,
      <<0, 0, 0, 0, 69>>,
      <<0, 0, 0, 0, 73>>,
      <<0, 0, 0, 0, 50>>,
      <<0, 0, 0, 0, 71>>,
      <<0, 0, 0, 0, 52>>,
      <<0, 0, 0, 0, 65>>,
      <<0, 0, 0, 0, 72>>,
      <<0, 0, 0, 0, 77>>,
      <<0, 0, 0, 0, 79>>,
      <<0, 0, 0, 0, 46>>,
      <<0, 0, 0, 0, 61>>,
      <<0, 0, 0, 0, 74>>,
      <<0, 0, 0, 0, 80>>,
      <<0, 0, 0, 0, 81>>>>

\* sum(values[1..i]), the values being pairs wins, visits.
RECURSIVE FloatSum(_, _)
FloatSum(values, i) ==
    IF i = 0 THEN 1
    ELSE FloatPlus[FloatSum(values, i - 1)][FloatOfRatio[values[i].visits][values[i].wins + 1]]

\* sum(values) / len(values), as the place of the double among the means.
FloatMean(values) == FloatMeanRank[FloatSum(values, Len(values))][Len(values)]

\* The loop of lines 269-274: the key whose values have the highest mean, the
\* first such key in the order of the dict; NoKey when the dict is empty.
NoKey == "None"

BestAverage(action_values) ==
    LET RECURSIVE best(_, _)
        \* k: place of the best key so far, 0 for none
        best(i, k) ==
            IF i > Len(action_values) THEN k
            ELSE best(i + 1,
                      IF k = 0
                         \/ FloatMean(action_values[i].values)
                              > FloatMean(action_values[k].values)
                      THEN i ELSE k)
        k == best(1, 0)
    IN  IF k = 0 THEN NoKey ELSE action_values[k].key

\* The loop of lines 249-263 with left determinizations to go: the
\* action_values, the generator's state, and the determinizations and
\* playouts run.
RECURSIVE Determinizations(_, _, _, _, _, _, _, _, _, _)

\* Lines 254-258 on the determinization d: a new root and sims_per_det
\* iterations.
Searched(d, n, legal_actions, player_id, sims_per_det, exploration, use_heuristics) ==
    Iterations(d.game, n, RootTree, legal_actions, player_id, exploration,
               use_heuristics, sims_per_det, d.rng)

\* Lines 260-263 on the tree the iterations left in run, and the loop from
\* there.
DeterminizationsFrom(game, n, legal_actions, player_id, sims_per_det, exploration, use_heuristics, left, acc, run) ==
    Determinizations(
        WrittenThrough(game, run.game, clone_shares),
        n, legal_actions, player_id, sims_per_det, exploration,
        use_heuristics, left,
        [acc EXCEPT !.action_values = Collect(@, run.tree, 1),
                    !.determinizations = @ + 1,
                    !.playouts = @ + (IF sims_per_det > 0 THEN sims_per_det ELSE 0)],
        run.rng)

Determinizations(game, n, legal_actions, player_id, sims_per_det, exploration, use_heuristics, left, acc, rng) ==
    IF left <= 0 THEN [acc EXCEPT !.rng = rng, !.game = game]
    ELSE DeterminizationsFrom(
             game, n, legal_actions, player_id, sims_per_det, exploration,
             use_heuristics, left - 1, acc,
             Searched(determinize_seeded(game, n, player_id, rng), n,
                      legal_actions, player_id, sims_per_det, exploration,
                      use_heuristics))

\* The first action of legal_actions whose key is the given one.
ActionOfKey(legal_actions, action_key) ==
    FirstIn(legal_actions,
            {legal_actions[i] : i \in {j \in 1..Len(legal_actions) :
                                        action_to_key(legal_actions[j]) = action_key}})

\* A choose_action without the fallback of line 283: it returns None when no
\* key was recorded.
Answer_no_fallback(game, legal_actions, best_key, ran) ==
    [action |-> IF best_key # NoKey THEN ActionOfKey(legal_actions, best_key)
                ELSE NoAction,
     game |-> game, rng |-> ran.rng,
     determinizations |-> ran.determinizations, playouts |-> ran.playouts]

\* What choose_action returns for the action with the key best_key, or for a
\* random.choice when no action has it; ran holds the generator's state and
\* the determinizations and playouts run.
Answer(game, legal_actions, best_key, ran) ==
    IF best_key # NoKey /\ ActionOfKey(legal_actions, best_key) # NoAction
    THEN [action |-> ActionOfKey(legal_actions, best_key), game |-> game,
          rng |-> ran.rng, determinizations |-> ran.determinizations,
          playouts |-> ran.playouts]
    ELSE [action |-> choice(legal_actions, ran.rng).value, game |-> game,
          rng |-> choice(legal_actions, ran.rng).rng,
          determinizations |-> ran.determinizations,
          playouts |-> ran.playouts]

\* Lines 265-283 on the action_values the determinizations left in averaged.
BestAnswer(legal_actions, averaged) ==
    Answer(averaged.game, legal_actions, BestAverage(averaged.action_values),
           averaged)

\* Lines 246-283 of MCTSAgent.choose_action: the search, whatever the number
\* of legal actions.
MCTSAgent_search(game, n, legal_actions, player_id, num_simulations, num_determinizations, exploration, use_heuristics, rng) ==
    BestAnswer(legal_actions,
               Determinizations(
                   game, n, legal_actions, player_id,
                   num_simulations \div num_determinizations, exploration,
                   use_heuristics, num_determinizations,
                   [action_values |-> <<>>, determinizations |-> 0,
                    playouts |-> 0, rng |-> rng, game |-> game],
                   rng))

\* A choose_action without the return of lines 243-244.
MCTSAgent_always_searches(game, n, legal_actions, player_id, num_simulations, num_determinizations, exploration, use_heuristics, rng) ==
    MCTSAgent_search(game, n, legal_actions, player_id, num_simulations,
                     num_determinizations, exploration, use_heuristics, rng)

\* MCTSAgent(player_id, num_simulations, num_determinizations, exploration,
\* use_heuristics).choose_action(game, legal_actions) with the generator in
\* state rng: the action returned, the game as the call leaves it, the
\* generator's state, and the determinizations and playouts run.
MCTSAgent_choose_action(game, n, legal_actions, player_id, num_simulations, num_determinizations, exploration, use_heuristics, rng) ==
    IF Len(legal_actions) = 1
    THEN [action |-> legal_actions[1], game |-> game, rng |-> rng,
          determinizations |-> 0, playouts |-> 0]
    ELSE MCTSAgent_search(game, n, legal_actions, player_id, num_simulations,
                          num_determinizations, exploration, use_heuristics, rng)

(***************************************************************************)
(* mcts_agent.py: FastMCTSAgent.choose_action                              *)
(***************************************************************************)
\* The fewest playouts FastMCTSAgent runs for an action.
MinSimsPerAction == 5

Max(a, b) == IF a >= b THEN a ELSE b

\* The loop of lines 373-380 with left playouts to go: the wins counted and
\* the generator's state.
RECURSIVE FastPlayouts(_, _, _, _, _, _, _)

\* Lines 379-380 on the playout's result, and the loop from there.
FastPlayoutsFrom(game, n, action, player_id, left, wins, simulated) ==
    FastPlayouts(WrittenThrough(game, simulated.state, clone_shares),
                 n, action, player_id, left,
                 wins + (IF simulated.winner = player_id THEN 1 ELSE 0),
                 simulated.rng)

\* Line 378 after det_game.execute_action(action) left done.
FastSimulated(done, n) ==
    simulate_with_heuristics(done.state, n, MaxMoves, done.rng)

\* Line 376 on the determinization d.
FastExecuted(d, n, action) == execute_seeded(d.game, n, action, d.rng)

FastPlayouts(game, n, action, player_id, left, wins, rng) ==
    IF left <= 0 THEN [wins |-> wins, rng |-> rng, game |-> game]
    ELSE FastPlayoutsFrom(
             game, n, action, player_id, left - 1, wins,
             FastSimulated(
                 FastExecuted(determinize_seeded(game, n, player_id, rng),
                              n, action),
                 n))

\* action_scores[action_key] = score on a dict kept as the sequence of its
\* items in insertion order.
Assigned(action_scores, action_key, score) ==
    IF \E i \in 1..Len(action_scores) : action_scores[i].key = action_key
    THEN [i \in 1..Len(action_scores) |->
            IF action_scores[i].key = action_key
            THEN [key |-> action_key, wins |-> score]
            ELSE action_scores[i]]
    ELSE Append(action_scores, [key |-> action_key, wins |-> score])

\* The loop of lines 371-382 from place i of legal_actions on; a score
\* wins / sims_per_action is kept as its wins, sims_per_action being the same
\* for all.
RECURSIVE FastScores(_, _, _, _, _, _, _, _)

\* Line 382 on the wins counted in run, and the loop from there.
FastScoresFrom(game, n, legal_actions, player_id, sims_per_action, i, action_scores, run) ==
    FastScores(run.game, n, legal_actions, player_id, sims_per_action, i + 1,
               Assigned(action_scores, action_to_key(legal_actions[i]), run.wins),
               run.rng)

FastScores(game, n, legal_actions, player_id, sims_per_action, i, action_scores, rng) ==
    IF i > Len(legal_actions)
    THEN [action_scores |-> action_scores, rng |-> rng, game |-> game]
    ELSE FastScoresFrom(game, n, legal_actions, player_id, sims_per_action, i,
                        action_scores,
                        FastPlayouts(game, n, legal_actions[i], player_id,
                                     sims_per_action, 0, rng))

\* max(action_scores, key=action_scores.get): the first key, in the order of
\* the dict, with the highest score.
BestScore(action_scores) ==
    LET RECURSIVE best(_, _)
        best(i, k) ==
            IF i > Len(action_scores) THEN k
            ELSE best(i + 1,
                      IF action_scores[i].wins > action_scores[k].wins
                      THEN i ELSE k)
    IN  action_scores[best(2, 1)].key

\* Lines 384-390 on the scores left in scored, after runs determinizations
\* and playouts.
FastAnswer(legal_actions, scored, runs) ==
    Answer(scored.game, legal_actions, BestScore(scored.action_scores),
           [rng |-> scored.rng, determinizations |-> runs, playouts |-> runs])

\* Lines 366-390 with sims_per_action playouts for every action.
FastSearch(game, n, legal_actions, player_id, sims_per_action, rng) ==
    FastAnswer(legal_actions,
               FastScores(game, n, legal_actions, player_id, sims_per_action,
                          1, <<>>, rng),
               sims_per_action * Len(legal_actions))

\* FastMCTSAgent(player_id, num_simulations).choose_action(game,
\* legal_actions) with the generator in state rng.
FastMCTSAgent_choose_action(game, n, legal_actions, player_id, num_simulations, rng) ==
    IF Len(legal_actions) = 1
    THEN [action |-> legal_actions[1], game |-> game, rng |-> rng,
          determinizations |-> 0, playouts |-> 0]
    ELSE FastSearch(game, n, legal_actions, player_id,
                    Max(MinSimsPerAction, num_simulations \div Len(legal_actions)),
                    rng)

(***************************************************************************)
(* An agent of mcts_agent.py asked for its action on a game in play, the   *)
(* way simulate.py's run_single_game asks: the agent of the current        *)
(* player, with get_legal_actions().  The caller seeds the generator       *)
(* before every call, with the same seed every time.                       *)
(***************************************************************************)
\* MCTSAgent's default exploration constant, 1.41, in hundredths.
DefaultExploration == 141

\* The games an agent is asked about: everybody alive, and the top three
\* known to the current player or to nobody.
GamesToSearch(n) ==
    {g \in GamesInPlay(n) :
        /\ \A i \in 0..(n - 1) : g.players[i].alive
        /\ g.top_three_known_by \in {None, g.current_player_idx}}

\* MCTSAgent(player_id, num_simulations, num_determinizations,
\* use_heuristics=...) and FastMCTSAgent(player_id, num_simulations).
Agents(player_id) ==
    {[agent |-> "MCTSAgent", player_id |-> player_id,
      num_simulations |-> num_simulations,
      num_determinizations |-> num_determinizations,
      exploration |-> DefaultExploration,
      use_heuristics |-> use_heuristics] :
        num_simulations \in 1..MaxSims,
        num_determinizations \in 1..MaxDets,
        use_heuristics \in BOOLEAN}
    \cup
    {[agent |-> "FastMCTSAgent", player_id |-> player_id,
      num_simulations |-> num_simulations,
      num_determinizations |-> 0,
      exploration |-> 0,
      use_heuristics |-> TRUE] :
        num_simulations \in 1..MaxSims}

\* agent.choose_action(game, legal_actions) with the generator in state rng.
choose_action(agent, game, n, legal_actions, rng) ==
    IF agent.agent = "MCTSAgent"
    THEN MCTSAgent_choose_action(game, n, legal_actions, agent.player_id,
                                 agent.num_simulations,
                                 agent.num_determinizations, agent.exploration,
                                 agent.use_heuristics, rng)
    ELSE FastMCTSAgent_choose_action(game, n, legal_actions, agent.player_id,
                                     agent.num_simulations, rng)

\* A game in play, the agent of its current player, and the caller's seed;
\* the generator is in whatever state it was left in.
InitSearch ==
    /\ num_players \in 2..MaxPlayers
    /\ state \in GamesToSearch(num_players)
    /\ history_len = 0
    /\ result = NoResult
    /\ raised = "None"
    /\ call = [state |-> state, action |-> NoAction]
    /\ illegal_calls = 0
    /\ det = NoDet
    /\ playout = NoPlayout
    /\ mcts = NoTree
    /\ selection = NoSelection
    /\ \E agent \in Agents(state.current_player_idx) :
          \E k \in 0..MaxSeed :
              search = [agent |-> agent.agent, settings |-> agent, seed |-> k,
                        rng |-> 0, seeded |-> 0, game |-> NoGame,
                        legal_actions |-> <<>>,
                        chosen |-> <<>>, determinizations |-> 0,
                        playouts |-> 0]

\* random.seed(search.seed), then
\* agents[current_id].choose_action(game, game.get_legal_actions()).
ChooseAction ==
    /\ search.agent # "None"
    /\ Len(search.chosen) < MaxCalls
    /\ LET current_id == state.current_player_idx
           legal_actions == get_legal_actions(state, num_players, current_id)
           seeded == seed(search.rng, search.seed)
       IN  \E out \in {choose_action(search.settings, state, num_players,
                                     legal_actions, seeded)} :
              /\ state' = out.game
              /\ search' = [search EXCEPT
                               !.rng = out.rng,
                               !.seeded = seeded,
                               !.game = state,
                               !.legal_actions = legal_actions,
                               !.chosen = Append(@, out.action),
                               !.determinizations = out.determinizations,
                               !.playouts = out.playouts]
    /\ UNCHANGED <<num_players, history_len, result, raised, call,
                   illegal_calls, det, playout, mcts, selection>>

NextSearch == ChooseAction

SpecSearch == InitSearch /\ [][NextSearch]_vars

(***************************************************************************)
(* The tree MCTSAgent.choose_action grows on one determinization (lines    *)
(* 251-258), one _mcts_iteration at a time.                                *)
(***************************************************************************)
\* The exploration constants of the agents: the default and 0.
Explorations == {0, DefaultExploration}

\* The hands of a game whose current player, player 0, can take a card from a
\* hand of two different cards: by a Favor or by a pair of cats.
TakerHands == {<<FAVOR>>, <<"CAT_TACOCAT", "CAT_TACOCAT">>, <<FAVOR, SKIP>>}

\* A game of n players in play in which player 0 holds hand and is to move,
\* player 1 holds a Skip and a Nope and every other player a Defuse.
GameWithTaker(n, hand, deck, known) ==
    [players |-> [i \in 0..(n - 1) |->
                    [id |-> i,
                     hand |-> IF i = 0 THEN hand
                              ELSE IF i = 1 THEN <<SKIP, NOPE>>
                              ELSE <<DEFUSE>>,
                     alive |-> TRUE]],
     deck |-> deck,
     discard |-> IF known = None THEN <<>> ELSE <<SEE_THE_FUTURE>>,
     current_player_idx |-> 0,
     turns_remaining |-> 1,
     game_over |-> FALSE,
     winner |-> None,
     top_three_known_by |-> known]

\* The games a tree is grown on: those of GamesToSearch and those with a
\* taker.
GamesToGrow(n) ==
    GamesToSearch(n)
        \cup {GameWithTaker(n, hand, deck, known) :
                hand \in TakerHands, deck \in DecksWith(n - 1),
                known \in {None, 0}}

\* Nothing was iterated yet.
NoIteration ==
    [path |-> <<>>, winner |-> None, applied |-> <<>>, before |-> RootTree,
     moves |-> 0]

\* The agent of the current player of a game in play with two or more legal
\* actions, its determinization of the game and the new root.
InitTree ==
    /\ num_players \in 2..MaxPlayers
    /\ state \in GamesToGrow(num_players)
    /\ Len(get_legal_actions(state, num_players, state.current_player_idx)) >= 2
    /\ history_len = 0
    /\ result = NoResult
    /\ raised = "None"
    /\ call = [state |-> state, action |-> NoAction]
    /\ illegal_calls = 0
    /\ det = NoDet
    /\ search = NoSearch
    /\ playout = NoPlayout
    /\ selection = NoSelection
    /\ \E exploration \in Explorations, use_heuristics \in BOOLEAN, k \in 0..MaxSeed :
          \E d \in {determinize_seeded(state, num_players,
                                       state.current_player_idx, seed(0, k))} :
              mcts = [agent |-> "MCTSAgent",
                      player_id |-> state.current_player_idx,
                      exploration |-> exploration,
                      use_heuristics |-> use_heuristics,
                      legal_actions |->
                          get_legal_actions(state, num_players,
                                            state.current_player_idx),
                      det_game |-> d.game,
                      tree |-> RootTree,
                      rng |-> d.rng,
                      iterations |-> 0,
                      last |-> NoIteration]

\* self._mcts_iteration(det_game, root, legal_actions)
Iterate ==
    /\ mcts.agent # "None"
    /\ mcts.iterations < MaxIters
    /\ \E it \in {_mcts_iteration(mcts.det_game, num_players, mcts.tree,
                                  mcts.legal_actions, mcts.player_id,
                                  mcts.exploration, mcts.use_heuristics,
                                  mcts.rng)} :
          mcts' = [mcts EXCEPT
                      !.det_game = it.game,
                      !.tree = it.tree,
                      !.rng = it.rng,
                      !.iterations = @ + 1,
                      !.last = [path |-> it.path, winner |-> it.winner,
                                applied |-> it.applied, before |-> mcts.tree,
                                moves |-> it.moves]]
    /\ UNCHANGED <<num_players, state, history_len, result, raised, call,
                   illegal_calls, det, search, playout, selection>>

NextTree == Iterate

SpecTree == InitTree /\ [][NextTree]_vars

(***************************************************************************)
(* The final selection of MCTSAgent.choose_action (lines 260-283) on the   *)
(* statistics the trees of the determinizations end with.                  *)
(***************************************************************************)
\* The visits and wins of the three children of a root after 8 iterations, as
\* MCTSAgent(0, num_simulations=32, num_determinizations=4,
\* use_heuristics=False) leaves them on Game(num_players=2, seed=5988): the
\* four roots of one call and two of other calls.
RootsSeen ==
    {<<[visits |-> 2, wins |-> 0], [visits |-> 2, wins |-> 0], [visits |-> 3, wins |-> 1]>>,
     <<[visits |-> 2, wins |-> 1], [visits |-> 2, wins |-> 1], [visits |-> 3, wins |-> 2]>>,
     <<[visits |-> 3, wins |-> 2], [visits |-> 2, wins |-> 1], [visits |-> 2, wins |-> 1]>>,
     <<[visits |-> 3, wins |-> 1], [visits |-> 2, wins |-> 1], [visits |-> 2, wins |-> 0]>>,
     <<[visits |-> 1, wins |-> 0], [visits |-> 3, wins |-> 3], [visits |-> 3, wins |-> 2]>>,
     <<[visits |-> 3, wins |-> 3], [visits |-> 2, wins |-> 2], [visits |-> 2, wins |-> 1]>>}

\* The root after its expansion to legal_actions, its children holding the
\* statistics stats and the root one visit more than they together.
RootWith(legal_actions, stats) ==
    [q \in DOMAIN Expand(RootTree, <<>>, legal_actions, 1) |->
        IF q = <<>>
        THEN [Expand(RootTree, <<>>, legal_actions, 1)[q] EXCEPT
                 !.visits = 1 + stats[1].visits + stats[2].visits + stats[3].visits]
        ELSE LET i == CHOOSE j \in 1..Len(legal_actions) :
                          action_to_key(legal_actions[j]) = q[1]
             IN  [Expand(RootTree, <<>>, legal_actions, 1)[q] EXCEPT
                     !.visits = stats[i].visits, !.wins = stats[i].wins]]

\* The agent of player 0, who holds a Favor and an Attack and so has three
\* legal actions, before the first determinization.
InitSelect ==
    /\ num_players = 2
    /\ \E deck \in DecksWith(1) :
          state = GameWithTaker(2, <<FAVOR, ATTACK>>, deck, None)
    /\ history_len = 0
    /\ result = NoResult
    /\ raised = "None"
    /\ call = [state |-> state, action |-> NoAction]
    /\ illegal_calls = 0
    /\ det = NoDet
    /\ search = NoSearch
    /\ playout = NoPlayout
    /\ mcts = NoTree
    /\ \E k \in 0..MaxSeed :
          selection = [agent |-> "MCTSAgent",
                       legal_actions |-> get_legal_actions(state, 2, 0),
                       action_values |-> <<>>,
                       determinizations |-> 0,
                       rng |-> seed(0, k),
                       chosen |-> <<>>]

\* Lines 260-263 at the end of one determinization, on a root of RootsSeen.
Collected ==
    /\ selection.agent # "None"
    /\ selection.chosen = <<>>
    /\ selection.determinizations < MaxRecorded
    /\ \E stats \in RootsSeen :
          selection' = [selection EXCEPT
              !.action_values =
                  Collect(@, RootWith(selection.legal_actions, stats), 1),
              !.determinizations = @ + 1]
    /\ UNCHANGED <<num_players, state, history_len, result, raised, call,
                   illegal_calls, det, search, playout, mcts>>

\* Lines 265-283 after the last determinization.
Selected ==
    /\ selection.agent # "None"
    /\ selection.chosen = <<>>
    /\ selection.determinizations >= 1
    /\ selection' = [selection EXCEPT
          !.chosen = <<BestAnswer(selection.legal_actions,
                                  [game |-> state,
                                   action_values |-> selection.action_values,
                                   rng |-> selection.rng,
                                   determinizations |-> selection.determinizations,
                                   playouts |-> 8 * selection.determinizations]).action>>]
    /\ UNCHANGED <<num_players, state, history_len, result, raised, call,
                   illegal_calls, det, search, playout, mcts>>

NextSelect == Collected \/ Selected

SpecSelect == InitSelect /\ [][NextSelect]_vars

(***************************************************************************)
(* Play to the end: the loop of run_single_game, every action taken from   *)
(* get_legal_actions(), on games late in play with short hands and decks.  *)
(***************************************************************************)
\* The decks of at most MaxDeck cards, Skips and the given number of hazards
\* in any order.
LateDecks(hazards) ==
    {d \in UNION {[1..m -> {EXPLODING_KITTEN, SKIP}] : m \in 0..MaxDeck} :
        Cardinality({i \in 1..Len(d) : d[i] = EXPLODING_KITTEN}) = hazards}

\* A game of GameInPlay with any such deck, no player eliminated yet.
InitPlay ==
    /\ num_players \in 2..MaxPlayers
    /\ \E k \in 0..(Len(HandChoices) - 1), deck \in LateDecks(num_players - 1) :
          state = GameInPlay(num_players, k, {}, deck, None)
    /\ history_len = 0
    /\ result = NoResult
    /\ raised = "None"
    /\ call = [state |-> state, action |-> NoAction]
    /\ illegal_calls = 0
    /\ det = NoDet
    /\ search = NoSearch
    /\ playout = NoPlayout
    /\ mcts = NoTree
    /\ selection = NoSelection

\* One turn of the loop: game.execute_action(action) while the game is not
\* over.  history_len counts the calls up to MaxActions.
PlayOn(action) ==
    /\ ~state.game_over
    /\ \E r \in RandomPicks(state, num_players, action) :
          \E out \in {execute_action(state, num_players, action, r)} :
              /\ state' = out.state
              /\ result' = out.result
              /\ raised' = out.raised
              /\ history_len' = Min(history_len + out.appended, MaxActions)
    /\ call' = [state |-> state, action |-> action]
    /\ UNCHANGED <<num_players, illegal_calls, det, search, playout, mcts,
                   selection>>

PlayPass == \E a \in LegalActions : a.type = "Pass" /\ PlayOn(a)

PlayPlayCard == \E a \in LegalActions : a.type = "PlayCard" /\ PlayOn(a)

PlayPlayCatPair == \E a \in LegalActions : a.type = "PlayCatPair" /\ PlayOn(a)

NextPlay == PlayPass \/ PlayPlayCard \/ PlayPlayCatPair

\* The loop takes its next turn as long as the game is not over.
SpecPlay == InitPlay /\ [][NextPlay]_vars /\ WF_vars(NextPlay)

(***************************************************************************)
(* Properties                                                              *)
(***************************************************************************)
Count(seq, x) == Cardinality({i \in 1..Len(seq) : seq[i] = x})

PlayerIds(s) == DOMAIN s.players

\* The sum of f[i] over the player ids, f a function on them.
SumOverPlayers(s, f) ==
    LET n == Cardinality(PlayerIds(s))
        RECURSIVE sum(_)
        sum(i) == IF i >= n THEN 0 ELSE f[i] + sum(i + 1)
    IN  sum(0)

TotalCards(s) ==
    Len(s.deck)
      + SumOverPlayers(s, [i \in PlayerIds(s) |-> Len(s.players[i].hand)])
      + Len(s.discard)

\* What a game of n players starts with: the box, a Defuse for each player, the
\* Defuses of the deck and n - 1 hazards.
InitialTotal(n) == Len(BaseDeck) + n + DEFUSE_IN_DECK + (n - 1)

AliveCount(s) == Cardinality({i \in PlayerIds(s) : s.players[i].alive})

\* The hazards in the deck and in the hands.
HazardsInCirculation(s) ==
    Count(s.deck, EXPLODING_KITTEN)
      + SumOverPlayers(s, [i \in PlayerIds(s) |->
                              Count(s.players[i].hand, EXPLODING_KITTEN)])

\* The last call of execute_action returned (and is not the construction).
Returned == call.action # NoAction /\ raised = "None"

\* The player who made the last call.
Actor == call.state.current_player_idx

\* The first alive player after player a of s in cyclic index order.
NextAliveAfter(s, a) ==
    LET n == Cardinality(PlayerIds(s))
        k == CHOOSE k \in 1..n :
                /\ s.players[(a + k) % n].alive
                /\ \A j \in 1..(k - 1) : ~s.players[(a + j) % n].alive
    IN  (a + k) % n

\* The hand of player i differs between s and t by exactly: one card of kind x
\* fewer in t.
HandLostOne(s, t, i, x) ==
    /\ Len(t.players[i].hand) = Len(s.players[i].hand) - 1
    /\ \A k \in CardType :
          Count(t.players[i].hand, k) =
              Count(s.players[i].hand, k) - (IF k = x THEN 1 ELSE 0)

C2_CurrentPlayerAlive ==
    ~state.game_over => current_player(state).alive

\* C3: after every execute_action, game_over is true exactly when one player
\* is alive, and then winner is that player's id; while two or more players
\* are alive game_over is false and winner is None.
C3_GameOverIffOneAlive ==
    history_len > 0 =>
        /\ state.game_over <=> AliveCount(state) = 1
        /\ state.game_over =>
              /\ state.winner \in PlayerIds(state)
              /\ state.players[state.winner].alive
              /\ state.players[state.winner].id = state.winner
        /\ AliveCount(state) >= 2 => ~state.game_over /\ state.winner = None

\* A call eliminated the player who was attacked, and the game is over.
C3_Witness ==
    /\ Returned
    /\ call.state.turns_remaining = 2
    /\ ~call.state.game_over
    /\ state.game_over
    /\ state.winner # call.state.current_player_idx

\* C4: the hazards in the deck and the hands number alive players - 1, and a
\* hazard enters the discard pile only in a call that eliminates a player who
\* was alive before it.
C4_HazardsMatchAlive ==
    /\ HazardsInCirculation(state) = AliveCount(state) - 1
    /\ Count(state.discard, EXPLODING_KITTEN)
            > Count(call.state.discard, EXPLODING_KITTEN)
         => /\ call.state.players[Actor].alive
            /\ ~state.players[Actor].alive

\* C5: execute_action with an action that get_legal_actions() does not offer
\* the current player signals IllegalActionError and leaves the state as it
\* was.
C5_IllegalActionRejected ==
    (/\ call.action # NoAction
     /\ call.action \notin
            Range(get_legal_actions(call.state, num_players, Actor)))
        => raised = "IllegalActionError" /\ state = call.state

\* C6: Game(num_players) with num_players < 2 fails with ConfigError.
C6_ConfigError ==
    num_players < 2 => raised = "ConfigError"

\* C7: right after Game(num_players), num_players >= 2: every player holds 5
\* cards, one of them a Defuse and none a hazard; the deck holds
\* num_players - 1 hazards and DEFUSE_IN_DECK = 2 Defuses; the discard pile is
\* empty, all players are alive, current_player_idx = 0, turns_remaining = 1
\* and game_over is false.
C7_Setup ==
    (history_len = 0 /\ call.action = NoAction /\ num_players >= 2) =>
        /\ PlayerIds(state) = 0..(num_players - 1)
        /\ \A i \in PlayerIds(state) :
              /\ Len(state.players[i].hand) = 5
              /\ Count(state.players[i].hand, DEFUSE) = 1
              /\ Count(state.players[i].hand, EXPLODING_KITTEN) = 0
              /\ state.players[i].alive
        /\ Count(state.deck, EXPLODING_KITTEN) = num_players - 1
        /\ Count(state.deck, DEFUSE) = 2
        /\ state.discard = <<>>
        /\ state.current_player_idx = 0
        /\ state.turns_remaining = 1
        /\ ~state.game_over

\* A game of three players right after its construction.
C7_Witness ==
    history_len = 0 /\ call.action = NoAction /\ num_players = 3

\* The players a Favor or a pair of p may aim at.
Eligible(s, p) ==
    {t \in PlayerIds(s) :
        t # p /\ s.players[t].alive /\ Len(s.players[t].hand) > 0}

\* The actions C8 lists for player p, the pairs over the kinds pairKinds.
ListedActions(s, p, pairKinds) ==
    {Pass}
      \cup {PlayCard(k, None) :
              k \in {k \in {ATTACK, SKIP, SHUFFLE, SEE_THE_FUTURE} :
                        Count(s.players[p].hand, k) >= 1}}
      \cup {PlayCard(FAVOR, t) :
              t \in {t \in Eligible(s, p) : Count(s.players[p].hand, FAVOR) >= 1}}
      \cup {PlayCatPair(k, t) :
              k \in {k \in pairKinds : Count(s.players[p].hand, k) >= 2},
              t \in Eligible(s, p)}

NoDuplicates(seq) ==
    \A i, j \in 1..Len(seq) : i # j => seq[i] # seq[j]

C9_AttackEndsTurn ==
    (/\ Returned
     /\ call.action = PlayCard(ATTACK, None)
     /\ has_card(call.state.players[Actor], ATTACK)
     /\ call.state.turns_remaining = 1)
        => /\ state.deck = call.state.deck
           /\ HandLostOne(call.state, state, Actor, ATTACK)
           /\ \A i \in PlayerIds(state) \ {Actor} :
                 state.players[i] = call.state.players[i]
           /\ state.discard = Append(call.state.discard, ATTACK)
           /\ state.current_player_idx = NextAliveAfter(call.state, Actor)
           /\ state.turns_remaining = 2

\* An Attack played with turns_remaining = 1 passed over an eliminated player.
C9_Witness ==
    /\ Returned
    /\ call.action = PlayCard(ATTACK, None)
    /\ call.state.turns_remaining = 1
    /\ state.turns_remaining = 2
    /\ state.current_player_idx # (Actor + 1) % num_players

\* C10: an ATTACK played by a player whose turns_remaining is 2 raises
\* turns_remaining to 3 and leaves the current player as it is.
C10_AttacksStack ==
    (/\ Returned
     /\ call.action = PlayCard(ATTACK, None)
     /\ has_card(call.state.players[Actor], ATTACK)
     /\ call.state.turns_remaining = 2)
        => /\ state.turns_remaining = 3
           /\ state.current_player_idx = call.state.current_player_idx

\* C11: SKIP played draws nothing (the deck is as it was) and moves only the
\* Skip card to the discard pile; played with turns_remaining = 1 it makes the
\* next alive player current with turns_remaining = 1, played with
\* turns_remaining = 2 it leaves the same player current with
\* turns_remaining = 1.
C11_SkipDecrements ==
    (/\ Returned
     /\ call.action = PlayCard(SKIP, None)
     /\ has_card(call.state.players[Actor], SKIP))
        => /\ state.deck = call.state.deck
           /\ HandLostOne(call.state, state, Actor, SKIP)
           /\ state.discard = Append(call.state.discard, SKIP)
           /\ state.turns_remaining = 1
           /\ call.state.turns_remaining = 1
                 => state.current_player_idx = NextAliveAfter(call.state, Actor)
           /\ call.state.turns_remaining = 2
                 => state.current_player_idx = call.state.current_player_idx
           /\ call.state.turns_remaining \in {1, 2}

\* A Skip was played by a player who had two turns to take.
C11_Witness ==
    /\ Returned
    /\ call.action = PlayCard(SKIP, None)
    /\ call.state.turns_remaining = 2
    /\ state.current_player_idx = Actor
    /\ state.turns_remaining = 1

\* C12: a Pass leaves turns_remaining = 1; made with turns_remaining = 2 it
\* leaves the same player current, made with turns_remaining = 1 it makes the
\* next alive player current.  When the card drawn is no hazard it is the
\* former top card deck[-1]: the deck is the former deck without it and the
\* drawer's hand is the former hand with it appended.
C12_PassDrawsThenEndsTurn ==
    (Returned /\ call.action = Pass)
        => LET s == call.state
               top == s.deck[Len(s.deck)]
           IN  /\ state.turns_remaining = 1
               /\ s.turns_remaining = 2
                     => state.current_player_idx = s.current_player_idx
               /\ s.turns_remaining = 1
                     => state.current_player_idx = NextAliveAfter(state, Actor)
               /\ (Len(s.deck) > 0 /\ top # EXPLODING_KITTEN)
                     => /\ result.draw = top
                        /\ state.deck = SubSeq(s.deck, 1, Len(s.deck) - 1)
                        /\ state.players[Actor].hand =
                              Append(s.players[Actor].hand, top)
                        /\ state.discard = s.discard

\* A Pass made with two turns to take drew a card that is no hazard.
C12_Witness ==
    /\ Returned
    /\ call.action = Pass
    /\ call.state.turns_remaining = 2
    /\ result.draw \notin {NoCard, EXPLODING_KITTEN}
    /\ state.current_player_idx = Actor
    /\ Len(state.players[Actor].hand) = Len(call.state.players[Actor].hand) + 1

\* C13: turns_remaining >= 1 in every state legal actions reach, before and
\* after every execute_action.
C13_TurnsRemainingPositive ==
    /\ state.turns_remaining >= 1
    /\ call.state.turns_remaining >= 1

\* A Pass or a Skip took the last turn of a player and passed the turn on.
C13_Witness ==
    /\ Returned
    /\ call.action \in {Pass, PlayCard(SKIP, None)}
    /\ call.state.turns_remaining = 1
    /\ state.current_player_idx # Actor
    /\ state.turns_remaining = 1

\* A Pass of the last call drew a hazard, and the drawer held a Defuse or not.
HazardDrawn(holdsDefuse) ==
    /\ Returned
    /\ call.action = Pass
    /\ Len(call.state.deck) > 0
    /\ call.state.deck[Len(call.state.deck)] = EXPLODING_KITTEN
    /\ has_card(call.state.players[Actor], DEFUSE) = holdsDefuse

C15_ExplodeEliminates ==
    HazardDrawn(FALSE)
        => LET s == call.state
           IN  /\ ~state.players[Actor].alive
               /\ state.players[Actor].hand = s.players[Actor].hand
               /\ \A i \in PlayerIds(state) \ {Actor} :
                     state.players[i] = s.players[i]
               /\ state.deck = SubSeq(s.deck, 1, Len(s.deck) - 1)
               /\ state.discard = Append(s.discard, EXPLODING_KITTEN)
               /\ HazardsInCirculation(state) = HazardsInCirculation(s) - 1
               /\ state.game_over <=> AliveCount(state) = 1
               /\ state.game_over
                     => /\ state.winner \in PlayerIds(state)
                        /\ state.players[state.winner].alive

\* A player without a Defuse drew a hazard and the game ended in that call.
C15_Witness ==
    /\ HazardDrawn(FALSE)
    /\ call.state.players[Actor].alive
    /\ ~call.state.game_over
    /\ state.game_over
    /\ state.winner # Actor

\* C18: whenever top_three_known_by = P, the top min(3, deck size) cards are
\* the cards P's most recent See the Future showed, in the same order: either
\* the last call was that See the Future, or the fact was already held and
\* the call left the top cards as they were; a call that changes the top of
\* the deck (a draw, a reinserted hazard, a shuffle) leaves the fact None.
C18_KnownTopIsTop ==
    (Returned /\ state.top_three_known_by # None)
        => \/ /\ call.action = PlayCard(SEE_THE_FUTURE, None)
              /\ state.top_three_known_by = Actor
              /\ result.seen_cards = peek_top(state.deck, 3)
           \/ /\ call.state.top_three_known_by = state.top_three_known_by
              /\ peek_top(state.deck, 3) = peek_top(call.state.deck, 3)

\* The cards of kind k in the deck and in the hands of the players other than o.
HiddenCount(s, o, k) ==
    Count(s.deck, k)
      + SumOverPlayers(s, [i \in PlayerIds(s) |->
                              IF i = o THEN 0 ELSE Count(s.players[i].hand, k)])

\* C16: determinize_game(game, observer) returns a game where the observer
\* holds the true hand, every alive opponent holds as many cards as in the
\* true game, the deck is as long and the discard pile the same, and the deck
\* and the opponents' hands together hold the same cards of every kind; the
\* total number of cards and the hazards in deck and hands are the true ones.
C16_DeterminizePreserves ==
    det # NoDet
        => LET o == det.observer_id
               d == det.game
           IN  /\ PlayerIds(d) = PlayerIds(state)
               /\ d.players[o].hand = state.players[o].hand
               /\ \A i \in PlayerIds(state) \ {o} :
                     /\ d.players[i].alive = state.players[i].alive
                     /\ state.players[i].alive
                           => Len(d.players[i].hand) = Len(state.players[i].hand)
               /\ Len(d.deck) = Len(state.deck)
               /\ d.discard = state.discard
               /\ \A k \in CardType : HiddenCount(d, o, k) = HiddenCount(state, o, k)
               /\ TotalCards(d) = TotalCards(state)
               /\ HazardsInCirculation(d) = HazardsInCirculation(state)

\* A game of three players was determinized for an observer with two alive
\* opponents holding cards, and an opponent's hand changed.
C16_Witness ==
    /\ det # NoDet
    /\ num_players = 3
    /\ \A i \in PlayerIds(state) :
          state.players[i].alive /\ Len(state.players[i].hand) > 0
    /\ \E i \in PlayerIds(state) \ {det.observer_id} :
          det.game.players[i].hand # state.players[i].hand

\* C17: when top_three_known_by is the observer, determinize_game leaves the
\* top min(3, deck size) cards, those peek_top(3) shows, on top of the deck
\* it returns, the same cards in the same order, whatever the deck size.
C17_KnownTopKept ==
    (det # NoDet /\ state.top_three_known_by = det.observer_id)
        => peek_top(det.game.deck, 3) = peek_top(state.deck, 3)


\* C19: when legal_actions holds exactly one action, choose_action (of
\* MCTSAgent and of FastMCTSAgent) returns that action, runs no
\* determinization and no playout, does not consult the generator, and
\* leaves the game state as it was.
C19_SingleActionReturned ==
    (search.agent # "None" /\ search.chosen # <<>>
        /\ Len(search.legal_actions) = 1)
    => /\ search.chosen[Len(search.chosen)] = search.legal_actions[1]
       /\ search.determinizations = 0
       /\ search.playouts = 0
       /\ search.rng = search.seeded
       /\ state = search.game

C19_Witness ==
    /\ search.agent = "MCTSAgent"
    /\ search.settings.num_simulations > 1
    /\ search.chosen # <<>>
    /\ Len(search.legal_actions) = 1
    /\ search.chosen[1] = Pass

C21_PlayoutWithinCap ==
    (playout.called \notin {"None", "Nothing"})
    => /\ playout.moves <= playout.max_moves
       /\ playout.raised = "None"
       /\ state.game_over
            => /\ playout.winner # None
               /\ state.players[playout.winner].alive
               /\ \A i \in DOMAIN state.players :
                     state.players[i].alive => i = playout.winner
       /\ ~state.game_over
            => /\ playout.moves = playout.max_moves
               /\ playout.winner = None

C21_Witness ==
    /\ playout.called = "simulate_with_heuristics"
    /\ playout.max_moves = MaxMoves
    /\ playout.moves = MaxMoves
    /\ ~state.game_over
    /\ playout.winner = None

C21_WitnessWinner ==
    /\ playout.called = "simulate_random_playout"
    /\ playout.moves > 1
    /\ playout.moves < playout.max_moves
    /\ state.game_over
    /\ playout.winner # None


\* C22: in one choose_action call, of MCTSAgent and of FastMCTSAgent, the
\* number of playouts run never exceeds the agent's num_simulations.
C22_BudgetsAreUpperBounds ==
    (search.agent # "None" /\ search.chosen # <<>>)
    => search.playouts <= search.settings.num_simulations

\* C22, MCTSAgent alone: num_determinizations rounds of
\* num_simulations // num_determinizations iterations stay within
\* num_simulations.
C22_MCTSAgentWithinBudget ==
    (search.agent = "MCTSAgent" /\ search.chosen # <<>>)
    => search.playouts <= search.settings.num_simulations


C23_DeterminizeLeavesGame ==
    (det # NoDet) => state = call.state

RECURSIVE Factorial(_)
Factorial(k) == IF k <= 1 THEN 1 ELSE k * Factorial(k - 1)

\* The exact sum of the ratios of values, in units of 1 / Factorial(5), which
\* every ratio with visits <= 5 is a whole number of.
RECURSIVE SumOfRatios(_, _)
SumOfRatios(values, i) ==
    IF i = 0 THEN 0
    ELSE (values[i].wins * Factorial(5)) \div values[i].visits
            + SumOfRatios(values, i - 1)

\* The exact mean of values is above that of others.
MeanAbove(values, others) ==
    SumOfRatios(values, Len(values)) * Len(others)
        > SumOfRatios(others, Len(others)) * Len(values)

\* The nodes of the tree grown so far, each named by the keys from the root.
Nodes == DOMAIN mcts.tree

\* The children of node q, as nodes.
ChildrenOf(q) ==
    {Append(q, mcts.tree[q].children[i]) : i \in 1..Len(mcts.tree[q].children)}

\* Node q lies on the path of the last iteration.
OnLastPath(q) ==
    Len(q) <= Len(mcts.last.path) /\ q = SubSeq(mcts.last.path, 1, Len(q))

\* The statistics node q had before the last iteration; a node made in it
\* starts at 0.
StatsBefore(q) ==
    IF q \in DOMAIN mcts.last.before
    THEN [visits |-> mcts.last.before[q].visits, wins |-> mcts.last.before[q].wins]
    ELSE [visits |-> 0, wins |-> 0]

\* The sum of the visits of a set of nodes.
RECURSIVE VisitsOf(_)
VisitsOf(qs) ==
    IF qs = {} THEN 0
    ELSE LET q == CHOOSE x \in qs : TRUE
         IN  mcts.tree[q].visits + VisitsOf(qs \ {q})

\* C24: with exploration constant 0, at a node all of whose children were
\* visited, best_child returns a child whose wins / visits no other child's
\* exceeds; so of two children with equal visits the one with fewer wins is
\* never returned.
C24_BestChildMaxRatio ==
    mcts.agent # "None" =>
        \A q \in Nodes :
            (/\ mcts.tree[q].children # <<>>
             /\ \A c \in ChildrenOf(q) : mcts.tree[c].visits > 0)
            => \A c \in ChildrenOf(q) :
                  mcts.tree[c].wins
                      * mcts.tree[Append(q, best_child(mcts.tree, q, 0))].visits
                  <= mcts.tree[Append(q, best_child(mcts.tree, q, 0))].wins
                      * mcts.tree[c].visits

\* A node whose children were all visited, two of them equally often and
\* with different wins.
C24_Witness ==
    /\ mcts.agent # "None"
    /\ \E q \in Nodes :
          /\ \A c \in ChildrenOf(q) : mcts.tree[c].visits > 0
          /\ \E c, d \in ChildrenOf(q) :
                /\ mcts.tree[c].visits = mcts.tree[d].visits
                /\ mcts.tree[c].wins < mcts.tree[d].wins
                /\ Append(q, best_child(mcts.tree, q, 0)) # c

\* C26: an iteration adds one visit, and 1 win if the playout's winner is the
\* agent's player and 0 otherwise, to every node on its path and leaves every
\* other node's statistics alone; every node has 0 <= wins <= visits and at
\* least as many visits as its children together, and the root has as many
\* visits as iterations were run.
C26_Backpropagation ==
    mcts.agent # "None" =>
        /\ mcts.iterations > 0 =>
              \A q \in Nodes :
                  /\ mcts.tree[q].visits
                        = StatsBefore(q).visits + (IF OnLastPath(q) THEN 1 ELSE 0)
                  /\ mcts.tree[q].wins
                        = StatsBefore(q).wins
                            + (IF OnLastPath(q) /\ mcts.last.winner = mcts.player_id
                               THEN 1 ELSE 0)
        /\ \A q \in Nodes :
              /\ 0 <= mcts.tree[q].wins
              /\ mcts.tree[q].wins <= mcts.tree[q].visits
              /\ mcts.tree[q].visits >= VisitsOf(ChildrenOf(q))
        /\ mcts.tree[<<>>].visits = mcts.iterations

\* An iteration whose path has a node below the root and whose playout the
\* agent's player won, in a tree with a node off the path.
C26_Witness ==
    /\ mcts.agent # "None"
    /\ mcts.iterations > 0
    /\ Len(mcts.last.path) >= 1
    /\ mcts.last.winner = mcts.player_id
    /\ \E q \in Nodes : ~OnLastPath(q) /\ mcts.tree[q].visits > 0

\* An iteration whose playout ended with no winner.
C26_WitnessNoWinner ==
    /\ mcts.agent # "None"
    /\ mcts.iterations > 0
    /\ mcts.last.winner = None

\* C27: an iteration adds at most one node to the tree.
C27_AtMostOneNewChild ==
    (mcts.agent # "None" /\ mcts.iterations > 0) =>
        Cardinality(Nodes) <= Cardinality(DOMAIN mcts.last.before) + 1

\* C28: no child has a second visit while a sibling has none, and a step of
\* selection from a node with an unvisited child went to an unvisited child.
C28_UnvisitedFirst ==
    mcts.agent # "None" =>
        /\ \A q \in Nodes :
              \A c, d \in ChildrenOf(q) :
                  mcts.tree[c].visits >= 2 => mcts.tree[d].visits >= 1
        /\ \A k \in 1..Len(mcts.last.path) :
              LET q == SubSeq(mcts.last.path, 1, k - 1)
                  c == SubSeq(mcts.last.path, 1, k)
              IN  (/\ mcts.last.before[q].children # <<>>
                   /\ \E j \in 1..Len(mcts.last.before[q].children) :
                         mcts.last.before[Append(q, mcts.last.before[q].children[j])].visits = 0)
                  => mcts.last.before[c].visits = 0

\* Selection went to the last unvisited child of a node whose other children
\* were visited, and a later iteration gave a child its second visit.
C28_Witness ==
    /\ mcts.agent # "None"
    /\ \E q \in Nodes :
          /\ Cardinality(ChildrenOf(q)) >= 2
          /\ \E c \in ChildrenOf(q) : mcts.tree[c].visits >= 2
    /\ Len(mcts.last.path) >= 1
    /\ mcts.last.before[<<>>].children # <<>>

\* C29: every action an iteration gave to the simulated game's execute_action
\* was in the simulated game's get_legal_actions() at that moment.
C29_AppliedActionsLegal ==
    mcts.agent # "None" =>
        \A i \in 1..Len(mcts.last.applied) : mcts.last.applied[i].legal

\* C25: with a visited root child, choose_action returns the legal action whose
\* key has the highest mean of the recorded ratios, and of the keys with that
\* mean the one recorded first.
C25_HighestMeanFirstRecorded ==
    (selection.agent # "None" /\ selection.chosen # <<>>) =>
        \E i \in 1..Len(selection.action_values) :
            /\ \A j \in 1..Len(selection.action_values) :
                  ~MeanAbove(selection.action_values[j].values,
                             selection.action_values[i].values)
            /\ \A j \in 1..(i - 1) :
                  MeanAbove(selection.action_values[i].values,
                            selection.action_values[j].values)
            /\ action_to_key(selection.chosen[1]) = selection.action_values[i].key

\* The action returned has a mean no other key's exceeds.
C25_HighestMean ==
    (selection.agent # "None" /\ selection.chosen # <<>>) =>
        \E i \in 1..Len(selection.action_values) :
            /\ \A j \in 1..Len(selection.action_values) :
                  ~MeanAbove(selection.action_values[j].values,
                             selection.action_values[i].values)
            /\ action_to_key(selection.chosen[1]) = selection.action_values[i].key

\* C30: every play of legal actions reaches game_over after finitely many
\* actions.
C30_PlayEnds == <>(state.game_over)

\* Two or more players are alive, the deck is empty and the game is not over:
\* the state a Pass leaves as it is, but for the turn.
C30_EmptyDeckInPlay ==
    /\ ~state.game_over
    /\ Len(state.deck) = 0
    /\ Cardinality({i \in DOMAIN state.players : state.players[i].alive}) >= 2

\* The deck is never empty while the game is in play.
C30_DeckLasts == [](~C30_EmptyDeckInPlay)

\* A hand of the game s holds a hazard.
HazardInHand(s) ==
    \E i \in DOMAIN s.players :
        \E j \in 1..Len(s.players[i].hand) :
            s.players[i].hand[j] = EXPLODING_KITTEN

\* C31: no hand holds a hazard, neither in a state of the engine reached by
\* legal actions nor in the game determinize_game makes of such a state.
C31_NoHazardInHand ==
    /\ ~HazardInHand(state)
    /\ det.observer_id # None => ~HazardInHand(det.game)

\* No hand holds a hazard in the states of the engine.
C31_EngineHandsNoHazard == ~HazardInHand(state)

\* C32: what MCTSAgent.choose_action and FastMCTSAgent.choose_action return is
\* an element of the legal_actions they were given, whatever the budgets,
\* also when no child of a root was visited.
C32_ReturnsLegalAction ==
    search.agent # "None" =>
        \A i \in 1..Len(search.chosen) :
            \E j \in 1..Len(search.legal_actions) :
                search.chosen[i] = search.legal_actions[j]

\* MCTSAgent with two or more legal actions and fewer than 2 iterations a
\* determinization, so that no root has a child: the fallback's choice, here
\* not the first legal action.
C32_Witness ==
    /\ search.agent = "MCTSAgent"
    /\ Len(search.legal_actions) >= 2
    /\ search.settings.num_simulations
          \div search.settings.num_determinizations < 2
    /\ search.chosen # <<>>
    /\ search.chosen[1] # search.legal_actions[1]

\* FastMCTSAgent returned one of two or more legal actions.
C32_WitnessFast ==
    /\ search.agent = "FastMCTSAgent"
    /\ Len(search.legal_actions) >= 2
    /\ search.chosen # <<>>

\* C33: a Shuffle played leaves top_three_known_by None, whoever it named, and
\* the deck with the cards it had; a See the Future played sets
\* top_three_known_by to the actor, reports the top min(3, len(deck)) cards and
\* leaves the deck as it was.
C33_ShuffleAndSeeTheFuture ==
    /\ (Returned /\ call.action = PlayCard(SHUFFLE, None))
          => /\ state.top_three_known_by = None
             /\ Len(state.deck) = Len(call.state.deck)
             /\ \A k \in CardType :
                   Count(state.deck, k) = Count(call.state.deck, k)
    /\ (Returned /\ call.action = PlayCard(SEE_THE_FUTURE, None))
          => /\ state.top_three_known_by = Actor
             /\ Len(result.seen_cards) = Min(3, Len(call.state.deck))
             /\ result.seen_cards
                   = SubSeq(call.state.deck,
                            Len(call.state.deck) - Len(result.seen_cards) + 1,
                            Len(call.state.deck))
             /\ state.deck = call.state.deck

\* A Shuffle that changed the order of the deck, played while another player
\* was the one who knew the top.
C33_Witness ==
    /\ Returned
    /\ call.action = PlayCard(SHUFFLE, None)
    /\ call.state.top_three_known_by # None
    /\ call.state.top_three_known_by # Actor
    /\ state.deck # call.state.deck

\* A See the Future played while another player was the one who knew the top.
C33_WitnessSeen ==
    /\ Returned
    /\ call.action = PlayCard(SEE_THE_FUTURE, None)
    /\ call.state.top_three_known_by # None
    /\ call.state.top_three_known_by # Actor
    /\ Len(result.seen_cards) = 3

\* The last call played a card or pair that does not end the turn.
PlayedOn ==
    /\ Returned
    /\ \/ call.action.type = "PlayCatPair"
       \/ /\ call.action.type = "PlayCard"
          /\ call.action.card_type \in {SHUFFLE, SEE_THE_FUTURE, FAVOR}

\* The last call took a card from a target: a Favor or a cat pair.
TookCard ==
    /\ Returned
    /\ \/ call.action.type = "PlayCatPair"
       \/ call.action.type = "PlayCard" /\ call.action.card_type = FAVOR

\* The cards of kind k the last call's action takes from the actor's hand.
PlayedOf(k) ==
    IF call.action.card_type # k THEN 0
    ELSE IF call.action.type = "PlayCatPair" THEN 2 ELSE 1

\* C34: a Shuffle, a See the Future, a Favor and a cat pair leave
\* current_player_idx, turns_remaining, every alive flag and the size of the
\* deck as they were; a Favor and a cat pair move exactly one card, the one
\* reported, from the target's hand to the actor's, and no other hand changes.
C34_TurnGoesOn ==
    /\ PlayedOn =>
          /\ state.current_player_idx = call.state.current_player_idx
          /\ state.turns_remaining = call.state.turns_remaining
          /\ \A i \in PlayerIds(state) :
                state.players[i].alive = call.state.players[i].alive
          /\ Len(state.deck) = Len(call.state.deck)
    /\ TookCard =>
          /\ result.stolen # NoCard
          /\ HandLostOne(call.state, state, call.action.target_player_id,
                         result.stolen)
          /\ \A k \in CardType :
                Count(state.players[Actor].hand, k)
                    = Count(call.state.players[Actor].hand, k) - PlayedOf(k)
                        + (IF k = result.stolen THEN 1 ELSE 0)
          /\ \A i \in PlayerIds(state) \ {Actor, call.action.target_player_id} :
                state.players[i] = call.state.players[i]

\* A cat pair took a card from a player who is not the next in turn, in a turn
\* of two.
C34_Witness ==
    /\ TookCard
    /\ call.action.type = "PlayCatPair"
    /\ result.stolen # NoCard
    /\ state.turns_remaining = 2

\* A Favor took a card.
C34_WitnessFavor ==
    /\ TookCard
    /\ call.action.card_type = FAVOR
    /\ result.stolen # NoCard

\* The last call ended the actor's turn at the table: the actor was eliminated
\* by its draw, or played an Attack, or ended the last turn it had.
TurnEnded ==
    /\ Returned
    /\ \/ /\ call.state.players[Actor].alive
          /\ ~state.players[Actor].alive
       \/ call.action.type = "PlayCard" /\ call.action.card_type = ATTACK
       \/ /\ call.state.turns_remaining = 1
          /\ \/ call.action = Pass
             \/ call.action.type = "PlayCard" /\ call.action.card_type = SKIP

\* No call revives a player, and the players keep their indices and ids.
C35_EliminatedStaysOut ==
    /\ DOMAIN state.players = DOMAIN call.state.players
    /\ \A i \in PlayerIds(state) :
          /\ state.players[i].id = i
          /\ ~call.state.players[i].alive => ~state.players[i].alive

\* Whenever current_player_idx changes, it changes to the first alive player
\* after the previous current player in cyclic index order.
C35_TurnPassesToNextAlive ==
    state.current_player_idx # call.state.current_player_idx =>
        state.current_player_idx = NextAliveAfter(state, Actor)

\* C35: an eliminated player never becomes alive again, the players keep their
\* indices and ids, and whenever a turn ends the new current player is the
\* first alive player after the previous current player in cyclic index
\* order (while the game goes on).
C35_TurnOrder ==
    /\ C35_EliminatedStaysOut
    /\ TurnEnded /\ ~state.game_over =>
          state.current_player_idx = NextAliveAfter(state, Actor)

\* A player was eliminated by a draw while two more players stay alive, and
\* the turn passed.
C35_Elimination ==
    /\ Returned
    /\ call.state.players[Actor].alive
    /\ ~state.players[Actor].alive
    /\ ~state.game_over
    /\ state.current_player_idx # Actor

\* C36: once game_over is true it stays true and winner does not change,
\* whatever action execute_action is called with afterwards, one that
\* get_legal_actions does not offer included.
C36_GameOverIsFinal ==
    call.state.game_over =>
        /\ state.game_over
        /\ state.winner = call.state.winner

\* execute_action was called on a game that was over and changed it: the call
\* drew a card or passed the turn.
C36_Witness ==
    /\ Returned
    /\ call.state.game_over
    /\ state.game_over
    /\ \/ Len(state.deck) < Len(call.state.deck)
       \/ state.current_player_idx # call.state.current_player_idx

\* C37: in every state reached by legal actions at least one player is alive,
\* and no call is caught in the loop of _advance_player or _do_attack that
\* looks for the next alive player.
C37_SomeoneAlive ==
    /\ AliveCount(state) >= 1
    /\ raised # "NoReturn"

\* A game that is over was played on: the one player left alive drew a card
\* and _advance_player looked for the next alive player.
C37_Witness ==
    /\ Returned
    /\ call.state.game_over
    /\ call.state.turns_remaining = 1
    /\ call.action = Pass
    /\ call.state.players[Actor].alive
    /\ AliveCount(state) = 1

\* The last call was execute_action(InsertExplodingKitten(position)).
Inserted == Returned /\ call.action.type = "InsertExplodingKitten"

\* C38: execute_action(InsertExplodingKitten(position)) changes neither the
\* number of hazards in the deck, the hands and the discard pile nor the
\* number of cards in them.
C38_InsertKeepsCounts ==
    Inserted =>
        /\ HazardsInCirculation(state) = HazardsInCirculation(call.state)
        /\ TotalCards(state) = TotalCards(call.state)

\* What the call does: the deck gets one hazard more at index position, and
\* nothing else of the game changes unless that ends it.
C38_InsertAddsHazard ==
    Inserted =>
        /\ Len(state.deck) = Len(call.state.deck) + 1
        /\ state.deck[Min(call.action.position, Len(call.state.deck)) + 1]
              = EXPLODING_KITTEN
        /\ HazardsInCirculation(state) = HazardsInCirculation(call.state) + 1
        /\ TotalCards(state) = TotalCards(call.state) + 1
        /\ state.players = call.state.players
        /\ state.discard = call.state.discard
        /\ result.position = call.action.position

\* A hazard was put on top of the deck of a game in which a hazard had been
\* drawn, defused and put back by the draw itself.
C38_InsertAfterDefuse ==
    /\ Inserted
    /\ call.action.position = Len(call.state.deck)
    /\ Len(call.state.discard) > 0
    /\ call.state.discard[Len(call.state.discard)] = DEFUSE
    /\ Count(call.state.deck, EXPLODING_KITTEN) = num_players - 1

\* C39: the discard pile before a call of execute_action is a prefix of the
\* discard pile after it, whatever the action: no card leaves the pile and
\* none is put anywhere but on top.
C39_DiscardAppendOnly ==
    /\ Len(state.discard) >= Len(call.state.discard)
    /\ SubSeq(state.discard, 1, Len(call.state.discard)) = call.state.discard

\* A call put cards on a discard pile that held two different cards.
C39_Witness ==
    /\ Returned
    /\ Len(call.state.discard) >= 2
    /\ call.state.discard[1] # call.state.discard[2]
    /\ Len(state.discard) > Len(call.state.discard)

\* Two actions are of the same class, card kind and target.
SameKindAndTarget(a, b) ==
    /\ a.type = b.type
    /\ a.card_type = b.card_type
    /\ a.target_player_id = b.target_player_id

\* The actions get_legal_actions() offers in the game a tree is grown on.
Offered == get_legal_actions(state, num_players, state.current_player_idx)

\* C40: within the list get_legal_actions returns, two actions have the same
\* key exactly when they are of the same kind and target, an action built
\* anew from the kind and target of a listed one has the listed one's key, no
\* two places of the list hold the same key, and the key of a listed action
\* maps back to that action; the root of a tree, once expanded, has a child
\* for every listed action.
C40_KeysTellActionsApart ==
    mcts.agent # "None" =>
        /\ \A i, j \in 1..Len(Offered) :
              /\ action_to_key(Offered[i]) = action_to_key(Offered[j])
                    <=> SameKindAndTarget(Offered[i], Offered[j])
              /\ i # j => action_to_key(Offered[i]) # action_to_key(Offered[j])
        /\ \A i \in 1..Len(Offered) :
              /\ Offered[i].type = "PlayCard" =>
                    action_to_key(PlayCard(Offered[i].card_type,
                                           Offered[i].target_player_id))
                        = action_to_key(Offered[i])
              /\ Offered[i].type = "PlayCatPair" =>
                    action_to_key(PlayCatPair(Offered[i].card_type,
                                              Offered[i].target_player_id))
                        = action_to_key(Offered[i])
              /\ action_to_key(Offered[i]) # NoKey
              /\ ActionOfKey(Offered, action_to_key(Offered[i])) = Offered[i]
        /\ mcts.iterations >= 2 =>
              Len(mcts.tree[<<>>].children) = Len(mcts.legal_actions)

\* The root of a tree was expanded with a Favor against each of two players.
C40_Witness ==
    /\ mcts.agent # "None"
    /\ mcts.iterations >= 1
    /\ \E i, j \in 1..Len(mcts.tree[<<>>].children) :
          /\ mcts.tree[<<>>].children[i] = action_to_key(PlayCard(FAVOR, 1))
          /\ mcts.tree[<<>>].children[j] = action_to_key(PlayCard(FAVOR, 2))

\* The root of a tree was expanded with a cat pair against each of two players.
C40_WitnessPair ==
    /\ mcts.agent # "None"
    /\ mcts.iterations >= 1
    /\ \E i, j \in 1..Len(mcts.tree[<<>>].children) :
          /\ mcts.tree[<<>>].children[i]
                = action_to_key(PlayCatPair("CAT_TACOCAT", 1))
          /\ mcts.tree[<<>>].children[j]
                = action_to_key(PlayCatPair("CAT_TACOCAT", 2))

====
